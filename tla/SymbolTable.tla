---------------------------- MODULE SymbolTable ----------------------------
(***************************************************************************)
(* ast.SymbolTable as implemented by SymbolMap (src/internal/ast/          *)
(* symbol.go, lines 30-131): a handle wrapping a Go map from names to      *)
(* symbols.  Handles are model values; the Go maps they wrap are numbered, *)
(* so that two handles may share one map, as NewSymbolTableFromMap makes   *)
(* them do.  A name with no entry maps to Absent; Set(name, nil) stores an *)
(* entry whose symbol is Nil.                                              *)
(*                                                                         *)
(* Ranging over a Go map produces, in no fixed order, each entry present   *)
(* when the loop began and not deleted before it is reached, once; an      *)
(* entry created during the loop (a deleted name set again included) may   *)
(* be produced or skipped.  Find, Each, Iter, Keys and Values are such     *)
(* loops; the bodies of Each, Iter, Keys and Values may write to the table *)
(* while the loop runs.                                                    *)
(***************************************************************************)
EXTENDS Naturals, FiniteSets

CONSTANTS
  Names,     \* symbol names
  Symbols,   \* non-nil *Symbol values
  Matching,  \* the symbols Find's predicate accepts
  Handles,   \* SymbolTable values
  Nil,       \* the nil *Symbol
  Absent,    \* no entry for the name
  MaxMaps    \* Go maps that may be allocated

ASSUME /\ Matching \subseteq Symbols /\ MaxMaps \in Nat
       /\ Nil \notin Symbols /\ Absent \notin Symbols \cup {Nil}

MapIds == 1..MaxMaps
Values == Symbols \cup {Nil}
Contents == [Names -> Values \cup {Absent}]
Empty == [n \in Names |-> Absent]
NoView == [n \in Names |-> "shared"]  \* the map may be written through other names
NoLoop == [h |-> Nil, owed |-> {}, created |-> {}, stoppable |-> FALSE]

VARIABLES
  maps,       \* map id -> its entries
  allocated,  \* map ids in use: 1..allocated
  table,      \* handle -> the id of its SymbolMap.m, 0 before it is made
  callerMap,  \* a plain map[string]*Symbol the caller builds, 0 if none
  loop,       \* the range loop in progress over a table: the entries it
              \* still owes, and those created since it began
  found,      \* what the last Find returned
  owned       \* history: per handle, the entries written through it alone

vars == <<maps, allocated, table, callerMap, loop, found, owned>>

\* Get2's ok: the names with an entry in map id.
Entries(id) == {n \in Names : maps[id][n] # Absent}

Fresh == allocated + 1

\* The range loop in progress once m[n] = v (v = Absent: delete) is done
\* to map id: a deleted entry is no longer owed, a created one may be
\* produced, a replaced one keeps its place.
LoopAfter(id, n, v) ==
  IF loop = NoLoop \/ table[loop.h] # id THEN loop
  ELSE IF v = Absent
       THEN [loop EXCEPT !.owed = @ \ {n}, !.created = @ \ {n}]
       ELSE IF maps[id][n] = Absent THEN [loop EXCEPT !.created = @ \cup {n}]
       ELSE loop

Init ==
  /\ maps = [i \in MapIds |-> Empty]
  /\ allocated = 0
  /\ table = [h \in Handles |-> 0]
  /\ callerMap = 0
  /\ loop = NoLoop
  /\ found = Nil
  /\ owned = [h \in Handles |-> NoView]

\* NewSymbolTable and NewSymbolTableWithCapacity: a new empty map.
NewSymbolTable(h) ==
  /\ table[h] = 0
  /\ allocated < MaxMaps
  /\ allocated' = Fresh
  /\ table' = [table EXCEPT ![h] = Fresh]
  /\ owned' = [owned EXCEPT ![h] = Empty]
  /\ UNCHANGED <<maps, callerMap, loop, found>>

\* The caller fills a map of its own.
CallerMap(c) ==
  /\ callerMap = 0
  /\ allocated < MaxMaps
  /\ allocated' = Fresh
  /\ maps' = [maps EXCEPT ![Fresh] = c]
  /\ callerMap' = Fresh
  /\ UNCHANGED <<table, loop, found, owned>>

\* NewSymbolTableFromMap wraps the caller's map without copying it.
NewSymbolTableFromMap(h) ==
  /\ table[h] = 0
  /\ callerMap # 0
  /\ table' = [table EXCEPT ![h] = callerMap]
  /\ UNCHANGED <<maps, allocated, callerMap, loop, found, owned>>

\* The caller goes on writing to (or deleting from) the map it handed over.
CallerWrite(n, v) ==
  /\ callerMap # 0
  /\ maps' = [maps EXCEPT ![callerMap][n] = v]
  /\ loop' = LoopAfter(callerMap, n, v)
  /\ UNCHANGED <<allocated, table, callerMap, found, owned>>

\* Variant: Clone wraps the same map (&SymbolMap{m: m.m}).
CloneShared(h, h2) ==
  /\ table[h] # 0 /\ table[h2] = 0
  /\ table' = [table EXCEPT ![h2] = table[h]]
  /\ owned' = [owned EXCEPT ![h2] = maps[table[h]]]
  /\ UNCHANGED <<maps, allocated, callerMap, loop, found>>

\* Clone: maps.Clone into a new map.
Clone(h, h2) ==
  /\ table[h] # 0 /\ table[h2] = 0
  /\ allocated < MaxMaps
  /\ allocated' = Fresh
  /\ maps' = [maps EXCEPT ![Fresh] = maps[table[h]]]
  /\ table' = [table EXCEPT ![h2] = Fresh]
  /\ owned' = [owned EXCEPT ![h2] = maps[table[h]]]
  /\ UNCHANGED <<callerMap, loop, found>>

\* m.m[n] = v through handle h, the write of Set and of Delete.
Store(h, n, v) ==
  /\ table[h] # 0
  /\ maps' = [maps EXCEPT ![table[h]][n] = v]
  /\ loop' = LoopAfter(table[h], n, v)
  /\ owned' = [owned EXCEPT ![h] = IF @ = NoView THEN NoView ELSE [@ EXCEPT ![n] = v]]
  /\ UNCHANGED <<allocated, table, callerMap, found>>

\* Set: m.m[name] = symbol; a nil symbol is stored as an entry.
Set(h, n, s) == Store(h, n, s)

\* Delete: delete(m.m, name).
Delete(h, n) == Store(h, n, Absent)

\* Find: the first symbol, in the map's order, the predicate accepts; nil
\* when none does.
Find(h) ==
  /\ table[h] # 0
  /\ LET m == maps[table[h]]
         M == {m[n] : n \in Entries(table[h])} \cap Matching
     IN IF M = {} THEN found' = Nil ELSE \E s \in M : found' = s
  /\ UNCHANGED <<maps, allocated, table, callerMap, loop, owned>>

\* Each, or a for-range over Iter, Keys or Values, begins.
LoopStart(h, stoppable) ==
  /\ table[h] # 0
  /\ loop = NoLoop
  /\ loop' = [h |-> h, owed |-> Entries(table[h]), created |-> {},
              stoppable |-> stoppable]
  /\ UNCHANGED <<maps, allocated, table, callerMap, found, owned>>

\* The loop reaches the entry of n and calls the body with it.
Yield(n) ==
  /\ loop # NoLoop
  /\ n \in loop.owed \cup loop.created
  /\ loop' = [loop EXCEPT !.owed = @ \ {n}, !.created = @ \ {n}]
  /\ UNCHANGED <<maps, allocated, table, callerMap, found, owned>>

\* The loop has produced every entry it owes; entries created during it
\* and not produced are skipped.
LoopEnd ==
  /\ loop # NoLoop
  /\ loop.owed = {}
  /\ loop' = NoLoop
  /\ UNCHANGED <<maps, allocated, table, callerMap, found, owned>>

\* Iter, Keys, Values: the consumer's yield returns false and the
\* iterator returns.
Stop ==
  /\ loop # NoLoop /\ loop.stoppable
  /\ loop' = NoLoop
  /\ UNCHANGED <<maps, allocated, table, callerMap, found, owned>>

Next ==
  \/ \E h \in Handles : NewSymbolTable(h) \/ NewSymbolTableFromMap(h) \/ Find(h)
  \/ \E c \in Contents : CallerMap(c)
  \/ \E n \in Names, v \in Values \cup {Absent} : CallerWrite(n, v)
  \/ \E h, h2 \in Handles : Clone(h, h2)
  \/ \E h \in Handles, n \in Names : Delete(h, n) \/ \E s \in Values : Set(h, n, s)
  \/ \E h \in Handles, b \in BOOLEAN : LoopStart(h, b)
  \/ \E n \in Names : Yield(n)
  \/ LoopEnd \/ Stop

Spec == Init /\ [][Next]_vars

-----------------------------------------------------------------------------
(* Properties.                                                             *)

\* A table made by NewSymbolTable or Clone sees exactly the writes made
\* through it: no write through another table, nor through the map a
\* NewSymbolTableFromMap table wraps, reaches it.
CloneIsolated ==
  \A h \in Handles : owned[h] # NoView => maps[table[h]] = owned[h]

=============================================================================

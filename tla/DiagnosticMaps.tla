--------------------------- MODULE DiagnosticMaps ---------------------------
(***************************************************************************)
(* LanguageService.GetDiagnostics and diagnosticMaps (src/internal/ls/     *)
(* api.go, lines 47-130): every syntactic and semantic diagnostic of every *)
(* source file is numbered by addDiagnostic, which also numbers, depth     *)
(* first, the diagnostics of its message chain and related information,    *)
(* and GetDiagnostics returns the numbered diagnostics sorted by id.       *)
(*                                                                         *)
(* An ast.Diagnostic is an element of Diags (its pointer identity); the    *)
(* program's diagnostics are the input sequence, and each diagnostic's     *)
(* MessageChain and RelatedInformation are chosen in Init from small       *)
(* acyclic shapes.  One step is one addDiagnostic call of the loop.        *)
(***************************************************************************)
EXTENDS Integers, Sequences, SequencesExt, FiniteSets, TLC

CONSTANTS
  Diags,    \* ast.Diagnostic pointers, as integers
  MaxTop,   \* diagnostics the program reports
  TopAreRoots \* no reported diagnostic is also another's chain or related

ASSUME Diags \subseteq Nat /\ MaxTop \in Nat /\ TopAreRoots \in BOOLEAN

VARIABLES
  messageChain,  \* Diags -> Seq(Diags): diagnostic.MessageChain()
  related,       \* Diags -> Seq(Diags): diagnostic.RelatedInformation()
  pending,       \* the program's diagnostics not yet added
  byId,          \* diagnosticMapById: id -> Diagnostic record
  reverse,       \* diagnosticReverseMap: ast.Diagnostic -> id
  result,        \* what GetDiagnostics returned, once it has
  reported       \* history: the program's diagnostics

vars == <<messageChain, related, pending, byId, reverse, result, reported>>

\* Children lists of at most one later diagnostic keep the inputs acyclic,
\* as the checker builds them.
ChildLists(d) == {<<>>} \cup {<<e>> : e \in {x \in Diags : x > d}}

\* Diagnostics reachable through message chains and related information.
Children(d) == ToSet(messageChain[d]) \cup ToSet(related[d])
RECURSIVE Reach(_)
Reach(S) == LET N == S \cup UNION {Children(d) : d \in S}
            IN IF N = S THEN S ELSE Reach(N)

-----------------------------------------------------------------------------
(* addDiagnostic (lines 69-99).  The state is <<byId, reverse>>; each      *)
(* operator returns the new state and the id(s) it produced.               *)

RECURSIVE AddDiagnostic(_, _, _), AddAll(_, _, _)

\* Adds the diagnostics of list ds in order, collecting their ids.
AddAll(ids, rev, ds) ==
  IF ds = <<>> THEN [byId |-> ids, rev |-> rev, out |-> <<>>]
  ELSE LET h == AddDiagnostic(ids, rev, Head(ds))
           t == AddAll(h.byId, h.rev, Tail(ds))
       IN [byId |-> t.byId, rev |-> t.rev, out |-> <<h.id>> \o t.out]

\* Variant: no early return for a diagnostic already numbered.
AddDiagnosticUncached(ids, rev, d) ==
  LET id == Cardinality(DOMAIN ids) + 1
      c == AddAll(ids, (d :> id) @@ rev, messageChain[d])
      r == AddAll(c.byId, c.rev, related[d])
  IN [byId |-> (id :> [id |-> id, diag |-> d, chain |-> c.out,
                       relatedInformation |-> r.out]) @@ r.byId,
      rev |-> r.rev, id |-> id]

\* Variant: the id is the map's size, without the + 1.
AddDiagnosticFromZero(ids, rev, d) ==
  IF d \in DOMAIN rev THEN [byId |-> ids, rev |-> rev, id |-> rev[d]]
  ELSE LET id == Cardinality(DOMAIN ids)
           c == AddAll(ids, (d :> id) @@ rev, messageChain[d])
           r == AddAll(c.byId, c.rev, related[d])
       IN [byId |-> (id :> [id |-> id, diag |-> d, chain |-> c.out,
                            relatedInformation |-> r.out]) @@ r.byId,
           rev |-> r.rev, id |-> id]

\* The id is taken from the size of diagnosticMapById before the message
\* chain and related information are added, and the diagnostic is stored
\* under it only after them.
AddDiagnostic(ids, rev, d) ==
  IF d \in DOMAIN rev THEN [byId |-> ids, rev |-> rev, id |-> rev[d]]
  ELSE LET id == Cardinality(DOMAIN ids) + 1
           c == AddAll(ids, (d :> id) @@ rev, messageChain[d])
           r == AddAll(c.byId, c.rev, related[d])
       IN [byId |-> (id :> [id |-> id, diag |-> d, chain |-> c.out,
                            relatedInformation |-> r.out]) @@ r.byId,
           rev |-> r.rev, id |-> id]

\* diagnosticMaps.GetDiagnostics (lines 101-111): the map's values sorted
\* by id.
SortedDiagnostics(ids) ==
  SetToSortSeq({ids[i] : i \in DOMAIN ids}, LAMBDA a, b : a.id < b.id)

-----------------------------------------------------------------------------
(* GetDiagnostics (lines 113-130).                                         *)

Init ==
  /\ messageChain \in [Diags -> UNION {ChildLists(d) : d \in Diags}]
  /\ \A d \in Diags : messageChain[d] \in ChildLists(d)
  /\ related \in [Diags -> UNION {ChildLists(d) : d \in Diags}]
  /\ \A d \in Diags : related[d] \in ChildLists(d)
  /\ pending \in BoundedSeq(Diags, MaxTop)
  /\ TopAreRoots => \A d \in Diags : ToSet(pending) \cap Children(d) = {}
  /\ reported = pending
  /\ byId = <<>>
  /\ reverse = <<>>
  /\ result = <<>>

\* One iteration of the loop: diagnosticMaps.addDiagnostic(diagnostic).
AddNext ==
  /\ pending # <<>>
  /\ LET a == AddDiagnostic(byId, reverse, Head(pending))
     IN /\ byId' = a.byId
        /\ reverse' = a.rev
  /\ pending' = Tail(pending)
  /\ UNCHANGED <<messageChain, related, result, reported>>

\* return diagnosticMaps.GetDiagnostics()
Return ==
  /\ pending = <<>>
  /\ result = <<>>
  /\ byId # <<>>
  /\ result' = SortedDiagnostics(byId)
  /\ UNCHANGED <<messageChain, related, pending, byId, reverse, reported>>

Done ==
  /\ pending = <<>>
  /\ (result # <<>> \/ byId = <<>>)
  /\ UNCHANGED vars

Next == AddNext \/ Return \/ Done

Spec == Init /\ [][Next]_vars

-----------------------------------------------------------------------------
(* Properties.                                                             *)

TypeOK ==
  /\ \A i \in DOMAIN byId : i >= 1 /\ byId[i].id = i /\ byId[i].diag \in Diags
  /\ DOMAIN reverse \subseteq Diags
  /\ \A d \in DOMAIN reverse : reverse[d] >= 1

\* Whatever the shape of the message chains and related information, and
\* even when the program reports a diagnostic twice or also as another's
\* child, each diagnostic GetDiagnostics returns is returned once, under
\* the id diagnosticReverseMap gives it: the id its parents' MessageChain
\* and RelatedInformation hold.  (Which diagnostics are returned at all is
\* AllReachedPresent's subject.)
ReturnedIdsConsistent ==
  /\ \A i \in DOMAIN result : reverse[result[i].diag] = result[i].id
  /\ \A i, j \in DOMAIN result : result[i].diag = result[j].diag => i = j

\* Every diagnostic reached through a message chain or related information
\* is returned too, under its own id: the ids that MessageChain and
\* RelatedInformation hold name the right diagnostics.
AllReachedPresent ==
  result # <<>> =>
    \A d \in Reach(ToSet(reported)) : \E i \in DOMAIN result :
      result[i].diag = d /\ result[i].id = reverse[d]

=============================================================================

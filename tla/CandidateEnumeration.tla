------------------------ MODULE CandidateEnumeration ------------------------
(***************************************************************************)
(* What a generator of blocking set candidates promises: asked again and   *)
(* again, it answers with every non-empty subset of its pool whose size is *)
(* allowed, each exactly once and the smaller ones first, and says that    *)
(* there are no more only when that is so.                                 *)
(***************************************************************************)
EXTENDS Integers, FiniteSets

CONSTANTS
  NoCandidate,   \* the answer when there are no more candidates
  NotAsked       \* no answer has been given yet

VARIABLES
  pool,       \* what candidates are made of
  smallest,   \* the sizes a candidate may have
  largest,
  emitted,    \* the candidates answered so far
  answer      \* the last answer

enumerationVars == <<pool, smallest, largest, emitted, answer>>

Outstanding ==
  {c \in SUBSET pool : Cardinality(c) \in smallest .. largest} \ emitted

EnumerationInit == emitted = {} /\ answer = NotAsked

\* A pool to start over with.
Restart == emitted' = {} /\ answer' = NotAsked

Emit ==
  \E c \in Outstanding :
    /\ \A d \in Outstanding : Cardinality(c) <= Cardinality(d)
    /\ answer' = c
    /\ emitted' = emitted \cup {c}
    /\ UNCHANGED <<pool, smallest, largest>>

Exhausted ==
  /\ Outstanding = {}
  /\ answer' = NoCandidate
  /\ UNCHANGED <<pool, smallest, largest, emitted>>

EnumerationNext == Restart \/ Emit \/ Exhausted

EnumerationSpec == EnumerationInit /\ [][EnumerationNext]_enumerationVars
=============================================================================

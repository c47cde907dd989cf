------------------ MODULE MCBlockingSetCandidateGenerator ------------------
(* Clauses of up to four literals, some without overlap, under every size   *)
(* restriction up to MaxSize.                                               *)
EXTENDS BlockingSetCandidateGenerator

CONSTANT MaxSize

MCLiterals == <<1, 2, 3, 4>>
MCOverlaps == {<<1, 1, 1, 1>>, <<2, 1, 0, 3>>, <<0, 0, 1, 0>>, <<0, 0, 0, 0>>}

Request(overlaps, restricted, min, max) ==
  [literals |-> MCLiterals, overlaps |-> overlaps, restricted |-> restricted,
   minAllowedSize |-> min, maxAllowedSize |-> max]

MCRequests ==
  {Request(o, FALSE, 0, 0) : o \in MCOverlaps}
    \cup {Request(o, TRUE, sizes[1], sizes[2]) :
            o \in MCOverlaps, sizes \in {s \in (0 .. MaxSize) \X (1 .. MaxSize) : s[1] <= s[2]}}
=============================================================================

--------------------------- MODULE MCReleasePipeline ---------------------------
(***************************************************************************)
(* Three runs at a time: a release and its resumption, whose packages,     *)
(* images and index are the same or not, alone, beside a canary or beside  *)
(* a newer release; a version prepared again by a later commit; a beta     *)
(* next to builds of main in either order.                                 *)
(***************************************************************************)
EXTENDS ReleasePipeline, TLC

CONSTANTS r1, r2, r3, v1, v2, c1, c2, c3, b1, b2, i1, j1, i2, i3

Output(lib, tool) == [p \in Package |-> IF p = "libcascade" THEN lib ELSE tool]
Of(kind, v, c, lib, tool, image) ==
  [kind |-> kind, version |-> v, sha |-> c, bytes |-> Output(lib, tool),
   image |-> image]
Runs(p1, p2, p3) == (r1 :> p1) @@ (r2 :> p2) @@ (r3 :> p3)

Stable(v, c, lib, tool, image) == Of("stable-release", v, c, lib, tool, image)
Main(c, image) == Of("main", v2, c, b1, b1, image)
PullRequest == Of("pull-request", v2, c3, b1, b1, i3)
Canary == Of("manual-canary", v2, c3, b1, b1, i3)
First == Stable(v1, c1, b1, b1, i1)

(* i1 and j1 are two indexes of one build's images.                        *)
Natives == [i \in Image |-> IF i = j1 THEN i1 ELSE i]

Resumptions ==
  { Runs(First, Stable(v1, c1, b1, b1, j1), PullRequest),
    Runs(First, Stable(v1, c1, b1, b2, j1), PullRequest),
    Runs(First, Stable(v1, c1, b1, b1, i2), PullRequest),
    Runs(First, Stable(v1, c1, b2, b1, j1), Canary),
    Runs(First, Stable(v1, c1, b1, b2, i1), Stable(v2, c3, b1, b1, i3)),
    Runs(First, Stable(v1, c2, b1, b1, i2), Stable(v2, c3, b1, b1, i3)),
    Runs(Of("beta-release", v1, c1, b1, b1, i1), Main(c2, i2), Main(c3, i3)) }
=============================================================================

--------------------------- MODULE MCLocalDocker ---------------------------
(* Two processes, the first with two goroutines, and one or two containers. *)
EXTENDS LocalDocker, TLC

CONSTANTS p1, p2, u, v, w, c, d

MCProcOf == (u :> p1) @@ (v :> p1) @@ (w :> p2)
Req(n, a) == [name |-> n, action |-> a]

MCRequests ==
    (u :> {Req(c, "destroy"), Req(c, "stop")})
    @@ (v :> {Req(c, "none"), Req(d, "destroy")})
    @@ (w :> {Req(c, "none"), Req(c, "destroy")})

Old(status, image) == [id |-> 1, boot |-> 1, status |-> status, image |-> image]

MCFound == {(c :> x) @@ (d :> Absent) : x \in {Absent, Old("stopped", "right"), Old("running", "other")}}
=============================================================================

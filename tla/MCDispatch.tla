----------------------------- MODULE MCDispatch -----------------------------
(* Small instances of Dispatch. *)
EXTENDS Dispatch

Req(k, b, t) == [key |-> k, body |-> b, kind |-> t]

\* A mutation, another body under its key, a mutation without receipt, a
\* stop, a read and a hello.
AllRequests ==
    {Req("k1", "x", "mutation"), Req("k1", "y", "mutation"), Req("k2", "x", "bind"),
     Req("k3", "x", "stop"), Req("k4", "x", "read"), Req("k5", "x", "hello")}

=============================================================================

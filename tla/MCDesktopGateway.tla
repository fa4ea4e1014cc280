-------------------------- MODULE MCDesktopGateway --------------------------
(* Instances of DesktopGateway for TLC. *)
EXTENDS DesktopGateway

\* Nothing is explored behind a client that is closed and does not dial, but
\* for the call that follows a swallowed one.
Alive ==
    disposal = "done" =>
        \/ dialing
        \/ socket # NoSocket
        \/ swallowed /\ connects < MaxConnects

=============================================================================

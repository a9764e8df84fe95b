------------------------------ MODULE MCSession ------------------------------
(* Session with small sets of connections and packets for TLC. *)
EXTENDS Session, TLC

CONSTANTS c1, c2

TwoConns == {c1, c2}
Symmetry == Permutations(Conns)

MCByte == 0 .. MaxOut

AttachOnly == {Pkt("Attach", 0)}
AnyAttach == {Pkt("Attach", 0), Pkt("Attach", 1)}
AttachAndForce == {Pkt("Attach", 0), Pkt("ForceDetach", 0)}
Everything == {Pkt("Attach", 0), Pkt("Attach", 1), Pkt("Detach", 0), Pkt("Push", 1),
               Pkt("Winch", 0), Pkt("Redraw", 2), Pkt("Redraw", 3), Pkt("Kill", 0),
               Pkt("Kill", 9), Pkt("ForceDetach", 0), Pkt("Info", 0)}
OneConn == {c1}
=============================================================================

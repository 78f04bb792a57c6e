----------------------------- MODULE MCSwapChain ----------------------------
(***************************************************************************)
(* SwapChain for TLC: a behaviour starts the sessions of one group.        *)
(*                                                                         *)
(*   1, 2   a path with two repeaters and one with one that shares nodes,  *)
(*          over UDP and TCP with ports of their own; qubits, packets and  *)
(*          connections may be lost                                        *)
(*   3, 4   two sessions on one path with one port, and so one socket      *)
(*   5, 6   as 1 and 2, all TCP, with links that the repeaters generate    *)
(*          and sockets that refuse data until they are connected; nothing *)
(*          is lost                                                        *)
(***************************************************************************)
EXTENDS SwapChain

MCSessions == 6
MCPath == << <<11, 12, 13, 14>>, <<14, 12, 11>>,
             <<21, 22, 23>>, <<21, 22, 23>>,
             <<31, 32, 33, 34>>, <<34, 32, 31>> >>
MCPort == <<7001, 7002, 7001, 7001, 7001, 7002>>
MCProto == <<"udp", "tcp", "tcp", "tcp", "tcp", "tcp">>
MCLeftOf == <<{1, 2, 3}, {1, 2}, {1, 2}, {1, 2}, {3}, {2}>>
MCMayLose == 1..4
MCLossyNodes == 11..23

ASSUME SwapAssumption /\ PacketsFit

VARIABLE group

MCInit == group \in {{1, 2}, {3, 4}, {5, 6}} /\ Init

MCNext == Next /\ started' \subseteq group /\ UNCHANGED group

\* The simulator runs as long as an event is pending; no event of a session
\* comes twice.
MCSpec == MCInit /\ [][MCNext]_<<vars, group>> /\ WF_<<vars, group>>(MCNext)

=============================================================================

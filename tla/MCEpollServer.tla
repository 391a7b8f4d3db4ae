--------------------------- MODULE MCEpollServer ---------------------------
(***************************************************************************)
(* Small instances of EpollServer for TLC.  The lines of the file: one as  *)
(* README.md has it, with a line end and without; with another @; with a   *)
(* blank in front, with three; without the @ at either end; without a      *)
(* port; empty.  start() listens on the second host.                       *)
(***************************************************************************)
EXTENDS EpollServer

SomeHosts == {<<"h">>, <<"i">>}
SomePorts == {<<"8">>}
HostInStart == <<"i">>
PortInStart == <<"8">>
SomeLines == {<<"@", "h", ":", "8", "@", LF>>, <<"@", "i", ":", "8", "@">>,
              <<"@", "@", "h", ":", "8", "@", LF>>,
              <<SP, "@", "h", ":", "8", "@", LF>>,
              <<SP, SP, SP, "@", "i", ":", "8", "@">>, <<"h", ":", "8", LF>>,
              <<"@", "h", "@", LF>>, <<LF>>}
=============================================================================

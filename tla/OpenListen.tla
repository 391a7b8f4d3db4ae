----------------------------- MODULE OpenListen -----------------------------
(***************************************************************************)
(* How a listening socket is made.  Open_listen() (inc/http_epoll.h) reads *)
(* the address from the file conf/config with file_param() of              *)
(* utils/utils.h and gives it to open_listenfd() of inc/sock.h; start()    *)
(* (src/core/epoll_circle.h) has that call commented out and gives         *)
(* open_listenfd() an address of its own.  open_clientfd() connects to an  *)
(* address in the same manner.  One call of one of the three.              *)
(***************************************************************************)
EXTENDS CString, FiniteSets

CONSTANTS Lines,         \* lines that may be in the file
          MaxLines,      \* bound: lines of the file
          Hosts, Ports,  \* the names getaddrinfo() can resolve
          StartHost, StartPort,  \* the two literals in start()
          MaxAddrs       \* bound: addresses it finds for one

ASSUME OpenListenAssumption == MaxLines \in Nat /\ MaxAddrs \in Nat

\* The names can be written in the file: the address has no colon in it and no
\* @ in front (so it is not one of IPv6), the port no @.
ASSUME NamesAssumption ==
  /\ \A h \in Hosts : h \in Seq(ToSet(h)) /\ h # << >> /\ h[1] # "@" /\ ":" \notin ToSet(h)
  /\ \A p \in Ports : p \in Seq(ToSet(p)) /\ p # << >> /\ "@" \notin ToSet(p)
  /\ StartHost \in Hosts /\ StartPort \in Ports

VARIABLES call,          \* who called: Open_listen() "listen", start(), or a client
          config,        \* the lines of the file; until the call ends
          rest,          \* those that fgets() has not returned yet
          ip, port,      \* sockpair, or the arguments of the call
          left,          \* the addresses from p to the end of the list
          socks,         \* how many sockets are open
          ok,            \* was the last of them returned, and not -1?
          at             \* where the call is

openvars == <<call, config, rest, ip, port, left, socks, ok, at>>

Listening == call = "listen" /\ at = "done" /\ ok

OpenTypeOK == /\ call \in {"listen", "start", "client"}
              /\ config \in Seq(Lines) /\ Len(config) <= MaxLines
              /\ IsSuffix(rest, config)
              /\ left \in 0..MaxAddrs
              /\ socks \in 0..1
              /\ ok \in BOOLEAN
              /\ at \in {"conf", "line", "lookup", "next", "setup", "bound", "done",
                         "crashed", "exited"}

OpenInit == /\ config \in BoundedSeq(Lines, MaxLines)
            /\ \/ call = "listen" /\ ip = << >> /\ port = << >> /\ at = "conf"
               \/ call = "start" /\ ip = StartHost /\ port = StartPort /\ at = "lookup"
               \/ call = "client" /\ config = << >> /\ ip \in Hosts /\ port \in Ports
                  /\ at = "lookup"
            /\ rest = config
            /\ left = 0 /\ socks = 0 /\ ok = FALSE

\* The call ends; nothing reads the file or sockpair again.
Ends(how) == /\ at' = how
             /\ config' = << >> /\ rest' = << >> /\ ip' = << >> /\ port' = << >>
             /\ left' = 0
             /\ UNCHANGED call

\* unix_error() and the like: the process exits, which closes its sockets.
Exits == Ends("exited") /\ socks' = 0 /\ ok' = FALSE

----------------------------------------------------------------------------
(* file_param()                                                            *)

OpenConf == /\ at = "conf"
            /\ at' = "line"
            /\ UNCHANGED <<call, config, rest, ip, port, left, socks, ok>>

\* The file cannot be opened.
NoConf == at = "conf" /\ Exits

\* How far the address is from the beginning: the second strspn() counts the @
\* behind the blanks, and its result replaces that of the first.
SkipFront(info) ==
  strspn(SubSeq(info, strspn(info, {SP}) + 1, Len(info)), {"@"})

\* The tokens of a line: up to the colon, then up to the next @.
FirstToken(info) == strtok(info, SkipFront(info) + 1, {":"})

\* Mutant: a colon ends the port, as it does the address.
SecondToken_Colon(info) == strtok(info, FirstToken(info).save, {":"})

SecondToken(info) == strtok(info, FirstToken(info).save, {"@"})

\* One line of the file.  strcpy() from NULL if either token is missing.
ReadLine == /\ at = "line" /\ rest # << >>
            /\ IF FirstToken(Head(rest)).ok /\ SecondToken(Head(rest)).ok
               THEN /\ ip' = FirstToken(Head(rest)).tok
                    /\ port' = SecondToken(Head(rest)).tok
                    /\ rest' = Tail(rest)
                    /\ UNCHANGED at
               ELSE /\ at' = "crashed"
                    /\ UNCHANGED <<rest, ip, port>>
            /\ UNCHANGED <<call, config, left, socks, ok>>

EndOfConf == /\ at = "line" /\ rest = << >>
             /\ at' = "lookup"
             /\ UNCHANGED <<call, config, rest, ip, port, left, socks, ok>>

----------------------------------------------------------------------------
(* open_listenfd() and open_clientfd()                                     *)

\* getaddrinfo() fails on what it does not know, and may on what it does.
Getaddrinfo == /\ at = "lookup"
               /\ \/ /\ ip \in Hosts /\ port \in Ports
                     /\ left' \in 1..MaxAddrs
                     /\ at' = "next"
                     /\ UNCHANGED <<call, config, rest, ip, port, socks, ok>>
                  \/ Exits

\* socket() for the address p; on failure the next one is tried.
NextAddress == /\ at = "next" /\ left > 0
               /\ \/ left' = left - 1 /\ UNCHANGED <<socks, at>>
                  \/ socks' = socks + 1 /\ at' = "setup" /\ UNCHANGED left
               /\ UNCHANGED <<call, config, rest, ip, port, ok>>

\* The list is at its end: -1.
NoAddress == at = "next" /\ left = 0 /\ Ends("done") /\ UNCHANGED <<socks, ok>>

\* Setsockopt() and Bind() exit on failure, so close() and the next address,
\* which follow in the code, are never reached.
Bind == /\ at = "setup" /\ call # "client"
        /\ \/ at' = "bound" /\ UNCHANGED <<call, config, rest, ip, port, left, socks, ok>>
           \/ Exits

Listen == /\ at = "bound"
          /\ \/ Ends("done") /\ ok' = TRUE /\ UNCHANGED socks
             \/ Exits

Connect == /\ at = "setup" /\ call = "client"
           /\ Ends("done") /\ ok' = TRUE /\ UNCHANGED socks

\* Mutant: the socket stays open.
ConnectFails_Leaks == /\ at = "setup" /\ call = "client"
                      /\ left' = left - 1
                      /\ at' = "next"
                      /\ UNCHANGED <<call, config, rest, ip, port, socks, ok>>

ConnectFails == /\ at = "setup" /\ call = "client"
                /\ socks' = socks - 1
                /\ left' = left - 1
                /\ at' = "next"
                /\ UNCHANGED <<call, config, rest, ip, port, ok>>

OpenNext == \/ OpenConf \/ NoConf \/ ReadLine \/ EndOfConf \/ Getaddrinfo
            \/ NextAddress \/ NoAddress \/ Bind \/ Listen \/ Connect \/ ConnectFails

----------------------------------------------------------------------------
(* Properties.                                                             *)

\* The form README.md:53 gives for a line of the file, @address:port@, and the
\* same with blanks in front, which file_param() means to skip.
Beginning(blanks, h) == [i \in 1..blanks |-> SP] \o <<"@">> \o h
Form(blanks, h, p) ==
  {Beginning(blanks, h) \o <<":">> \o p \o <<"@">> \o e : e \in {<< >>, <<LF>>}}
WellFormed(line) ==
  \E blanks \in 0..Len(line), h \in Hosts, p \in Ports : line \in Form(blanks, h, p)

\* What file_param() takes such a line for: one character in front is dropped,
\* never more, so with blanks the address keeps the others and the @.
ReadAs(line, host, service) ==
  \E blanks \in 0..Len(line), h \in Hosts, p \in Ports :
    /\ line \in Form(blanks, h, p)
    /\ host = IF blanks = 0 THEN h ELSE Tail(Beginning(blanks, h))
    /\ service = p

\* The address open_listenfd() looks up.  Open_listen(), for a file of such
\* lines: not a null pointer, and that of the last line, as it is written if no
\* blank is in front, and with the @ in it otherwise.  start(): its literals,
\* whatever the file says.
AddressUsed ==
  /\ call = "listen" /\ config # << >> /\ (\A i \in DOMAIN config : WellFormed(config[i]))
       => at # "crashed" /\ (at = "lookup" => ReadAs(Last(config), ip, port))
  /\ call = "start" /\ at = "lookup" => ip = StartHost /\ port = StartPort

\* When the call has returned one socket is open, the one it returned, or none
\* if it returned -1, however many addresses failed.
OneSocket == at = "done" => socks = IF ok THEN 1 ELSE 0
=============================================================================

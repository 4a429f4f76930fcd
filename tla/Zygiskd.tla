------------------------------ MODULE Zygiskd ------------------------------
(***************************************************************************)
(* The daemon from boot on and everyone who talks to it: the module's boot *)
(* scripts, the accept loop of server.rs, the processes that Zygisk        *)
(* specialises, and other programs that open the socket.  zygiskd serves   *)
(* one connection at a time and waits for its header; a client waits for   *)
(* its answer without a timeout, and retries only the connection.          *)
(*                                                                         *)
(* A process asks once for itself, in get_module_info; the zygote does so  *)
(* only if fork_pre could not fork.  What its modules ask after that goes  *)
(* to the number in g_sock, whatever has it by then: ZygiskFds.            *)
(***************************************************************************)
EXTENDS Naturals, Sequences

CONSTANTS
    Child,      \* processes that the zygote forks
    Other,      \* other programs, each of which connects once at most
    Devices,    \* sets of things that may go wrong together
    Backlog,    \* connections the listening socket queues
    LastDelay   \* milliseconds before the last attempt to connect; the delays
                \* double from 100, up to 1600 in the code

Zygote == "zygote"
Asker == Child \cup {Zygote}
Peer == Asker \cup Other
Failure == {"bind", "crash", "fork"}
NoPeer == "nobody"

ASSUME PeerAssumption == /\ Zygote \notin Child \cup Other
                         /\ NoPeer \notin Peer
                         /\ Child \cap Other = {}
ASSUME DeviceAssumption == Devices \subseteq SUBSET Failure
ASSUME BacklogAssumption == Backlog \in Nat \ {0}
ASSUME DelayAssumption == LastDelay \in Nat

VARIABLES
    failures,    \* what may go wrong on this device
    script,      \* the boot script that comes next
    daemon,      \* off, starting, accepting, or exited
    path,        \* what the socket's path names: none, stale or live
    queue,       \* connections not yet accepted
    serving,     \* the connection being served
    link,        \* each peer's connection
    sent,        \* does the daemon have the peer's whole header?
    pc,          \* where an asking process is
    delay        \* of zygisk_connect, in milliseconds

server == <<daemon, path, queue, serving>>
client == <<pc, delay>>
vars == <<failures, script, server, link, sent, client>>

Fails(f) == f \in failures
Goes(p, to) == pc' = [pc EXCEPT ![p] = to]

(***************************************************************************)
(* The path lies on /data: the socket file of an earlier boot is there.    *)
(***************************************************************************)
Init ==
    /\ failures \in Devices
    /\ script = "post-fs-data"
    /\ daemon = "off" /\ path \in {"none", "stale"}
    /\ queue = <<>> /\ serving = NoPeer
    /\ link = [p \in Peer |-> "none"]
    /\ sent = [p \in Peer |-> FALSE]
    /\ pc = [p \in Asker |-> IF p = Zygote THEN "java" ELSE "unborn"]
    /\ delay = [p \in Asker |-> 100]

-----------------------------------------------------------------------------
(***************************************************************************)
(* customize.sh unpacks the daemon to bin/<abi>/, moves it to the module's *)
(* directory, and removes what is left of bin/<abi>.                       *)
(***************************************************************************)
Installed == {"zygiskd", "libzygisk.so"}

PostFsData ==
    /\ script = "post-fs-data"
    /\ daemon' = IF "zygiskd" \in Installed THEN "starting" ELSE daemon
    /\ script' = "service"
    /\ UNCHANGED <<failures, path, queue, serving, link, sent, client>>

(***************************************************************************)
(* service.sh: pgrep, and exec of a path of its own.                       *)
(***************************************************************************)
Service ==
    /\ script = "service"
    /\ daemon' = IF daemon \in {"off", "exited"} /\ "bin/zygiskd" \in Installed
                 THEN "starting" ELSE daemon
    /\ script' = "done"
    /\ UNCHANGED <<failures, path, queue, serving, link, sent, client>>

-----------------------------------------------------------------------------
(***************************************************************************)
(* run(): the old socket file is removed, then bind.                       *)
(***************************************************************************)
Bind_MKeepsFile ==
    /\ daemon = "starting"
    /\ \/ (Fails("bind") \/ path = "stale") /\ daemon' = "exited"
                                            /\ path' = path
       \/ path = "none" /\ daemon' = "accepting" /\ path' = "live"
    /\ UNCHANGED <<failures, script, queue, serving, link, sent, client>>

Bind ==
    /\ daemon = "starting"
    /\ \/ Fails("bind") /\ daemon' = "exited" /\ path' = "none"
       \/ daemon' = "accepting" /\ path' = "live"
    /\ UNCHANGED <<failures, script, queue, serving, link, sent, client>>

Accept ==
    /\ daemon = "accepting" /\ serving = NoPeer
    /\ queue # <<>>
    /\ serving' = Head(queue)
    /\ queue' = Tail(queue)
    /\ UNCHANGED <<failures, script, daemon, path, link, sent, client>>

(***************************************************************************)
(* read_exact has the whole header, or finds that the peer is gone; the    *)
(* answer is written, or cannot be; the stream is dropped either way.      *)
(***************************************************************************)
Serve_MExits ==
    /\ serving # NoPeer
    /\ sent[serving] \/ link[serving] = "closed"
    /\ link' = [link EXCEPT ![serving] = IF @ = "open" THEN "answered" ELSE @]
    /\ daemon' = IF sent[serving] THEN daemon ELSE "exited"
    /\ path' = IF sent[serving] THEN path ELSE "stale"
    /\ serving' = NoPeer
    /\ UNCHANGED <<failures, script, queue, sent, client>>

Serve_MReadsOn ==
    /\ serving # NoPeer
    /\ sent[serving]
    /\ link' = [link EXCEPT ![serving] = IF @ = "open" THEN "answered" ELSE @]
    /\ serving' = NoPeer
    /\ UNCHANGED <<failures, script, daemon, path, queue, sent, client>>

Serve ==
    /\ serving # NoPeer
    /\ sent[serving] \/ link[serving] = "closed"
    /\ link' = [link EXCEPT ![serving] = IF @ = "open" THEN "answered" ELSE @]
    /\ serving' = NoPeer
    /\ UNCHANGED <<failures, script, daemon, path, queue, sent, client>>

(***************************************************************************)
(* The daemon dies: its sockets are closed and the file stays.             *)
(***************************************************************************)
Crash ==
    /\ Fails("crash") /\ daemon = "accepting"
    /\ daemon' = "exited" /\ path' = "stale"
    /\ queue' = <<>> /\ serving' = NoPeer
    /\ link' = [p \in Peer |-> IF link[p] = "open" THEN "reset" ELSE link[p]]
    /\ UNCHANGED <<failures, script, sent, client>>

-----------------------------------------------------------------------------
(***************************************************************************)
(* A replaced method is called.  If the fork failed, the zygote goes on in *)
(* the child's place.                                                      *)
(***************************************************************************)
Fork(c) ==
    /\ pc[Zygote] = "java" /\ pc[c] = "unborn"
    /\ Goes(c, "connect")
    /\ UNCHANGED <<failures, script, server, link, sent, delay>>

ForkFails ==
    /\ Fails("fork")
    /\ pc[Zygote] = "java"
    /\ Goes(Zygote, "connect")
    /\ UNCHANGED <<failures, script, server, link, sent, delay>>

(***************************************************************************)
(* zygisk_connect.  connect(2) waits while the queue is full; if nobody    *)
(* listens, the next attempt comes after a delay, and after the last the   *)
(* breaker opens: no modules are loaded, and nobody here asks again.       *)
(***************************************************************************)
ConnectsTo(p) ==
    /\ path = "live" /\ Len(queue) < Backlog
    /\ queue' = Append(queue, p)
    /\ link' = [link EXCEPT ![p] = "open"]

Connect(p) ==
    /\ pc[p] = "connect"
    /\ ConnectsTo(p)
    /\ Goes(p, "write")
    /\ UNCHANGED <<failures, script, daemon, path, serving, sent, delay>>

Refused(p) ==
    /\ pc[p] = "connect" /\ path # "live"
    /\ IF delay[p] < LastDelay
       THEN delay' = [delay EXCEPT ![p] = 2 * @] /\ UNCHANGED pc
       ELSE Goes(p, "without") /\ UNCHANGED delay
    /\ UNCHANGED <<failures, script, server, link, sent>>

(***************************************************************************)
(* zygisk_request_fd writes the header; get_module_info reads the answer,  *)
(* or takes for it what is on the stack if the stream ends.                *)
(***************************************************************************)
WriteHeader(p) ==
    /\ pc[p] = "write"
    /\ Goes(p, "read")
    /\ sent' = [sent EXCEPT ![p] = link[p] = "open"]
    /\ UNCHANGED <<failures, script, server, link, delay>>

ReadReply(p) ==
    /\ pc[p] = "read" /\ link[p] \in {"answered", "reset"}
    /\ Goes(p, IF link[p] = "answered" THEN "info" ELSE "garbage")
    /\ link' = [link EXCEPT ![p] = "closed"]
    /\ UNCHANGED <<failures, script, server, sent, delay>>

(***************************************************************************)
(* A module asks through the number in g_sock, which nobody answers: the   *)
(* call returns, or waits for what has the number now.                     *)
(***************************************************************************)
ModuleAsks(p) ==
    /\ pc[p] \in {"info", "garbage"}
    /\ Goes(p, "stuck")
    /\ UNCHANGED <<failures, script, server, link, sent, delay>>

(***************************************************************************)
(* The zygote's call ends, and its destructor takes the zygote for a       *)
(* child: its own methods are put back, and no wrapper runs in it again.   *)
(***************************************************************************)
ZygoteReturns ==
    /\ pc[Zygote] \in {"info", "garbage", "without"}
    /\ Goes(Zygote, "unhooked")
    /\ UNCHANGED <<failures, script, server, link, sent, delay>>

(***************************************************************************)
(* A child is killed, wherever it is.                                      *)
(***************************************************************************)
Killed(c) ==
    /\ pc[c] \in {"write", "read"}
    /\ Goes(c, "dead")
    /\ link' = [link EXCEPT ![c] = "closed"]
    /\ UNCHANGED <<failures, script, server, sent, delay>>

(***************************************************************************)
(* Another program: it connects, and may send a header, or go, or neither: *)
(* it owes zygiskd nothing, and read_exact has no timeout.                 *)
(***************************************************************************)
OtherConnects(q) ==
    /\ link[q] = "none"
    /\ ConnectsTo(q)
    /\ UNCHANGED <<failures, script, daemon, path, serving, sent, client>>

OtherSends(q) ==
    /\ link[q] = "open" /\ ~sent[q]
    /\ sent' = [sent EXCEPT ![q] = TRUE]
    /\ UNCHANGED <<failures, script, server, link, client>>

OtherCloses(q) ==
    /\ link[q] \in {"open", "answered", "reset"}
    /\ link' = [link EXCEPT ![q] = "closed"]
    /\ UNCHANGED <<failures, script, server, sent, client>>

Scripts == PostFsData \/ Service
Server == Bind \/ Accept \/ Serve
Asks(p) == Connect(p) \/ Refused(p) \/ WriteHeader(p) \/ ReadReply(p)

Next ==
    \/ Scripts
    \/ Server \/ Crash
    \/ \E c \in Child : Fork(c) \/ Killed(c)
    \/ ForkFails \/ ZygoteReturns
    \/ \E p \in Asker : Asks(p) \/ ModuleAsks(p)
    \/ \E q \in Other : OtherConnects(q) \/ OtherSends(q) \/ OtherCloses(q)

(***************************************************************************)
(* init runs the scripts and processes run on.  Nothing is assumed of      *)
(* other programs.                                                         *)
(***************************************************************************)
Fairness ==
    /\ WF_vars(Scripts) /\ WF_vars(Server)
    /\ \A p \in Asker : WF_vars(Asks(p))

Spec == Init /\ [][Next]_vars /\ Fairness

-----------------------------------------------------------------------------
(***************************************************************************)
(* zygiskd waits for the header of a program that is connected and has     *)
(* sent none (server.rs:29).                                               *)
(***************************************************************************)
WaitsForOther ==
    serving \in Other /\ link[serving] = "open" /\ ~sent[serving]

(***************************************************************************)
(* A process that asks for itself is answered or goes on without, whatever *)
(* fails and dies, unless the daemon waits for ever for the header of one  *)
(* silent program.  Nothing else keeps a process waiting: no daemon that   *)
(* is not there, died before or after the header, or lost another client   *)
(* halfway (server.rs:25-62, ipc_client.cpp:36-52).                        *)
(***************************************************************************)
AskersGoOn ==
    ~<>[]WaitsForOther =>
        \A p \in Asker :
            pc[p] = "connect" ~> pc[p] \notin {"connect", "write", "read"}

(***************************************************************************)
(* A child that asks while the daemon listens is answered, unless the      *)
(* child is killed, the daemon dies, or it waits for ever for a silent     *)
(* program: other programs and children that are killed neither make the   *)
(* accept loop end nor take the answer (server.rs:29-31, 53-60).           *)
(***************************************************************************)
ListenerAnswers ==
    ~<>[]WaitsForOther =>
        \A c \in Child :
            path = "live" /\ pc[c] = "connect" /\ ~Fails("crash")
                ~> pc[c] \in {"info", "dead"}

(***************************************************************************)
(* The daemon comes up also where the socket file of an earlier boot is    *)
(* (server.rs:10).                                                         *)
(***************************************************************************)
DaemonListens ==
    ~Fails("bind") ~> path = "live" \/ (daemon = "exited" /\ Fails("crash"))
=============================================================================

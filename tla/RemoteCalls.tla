----------------------------- MODULE RemoteCalls -----------------------------
(***************************************************************************)
(* A program that makes system calls through SocketPipes, the servers that *)
(* execute them, and the control thread that moves the pipes to another    *)
(* server at the request of ldx-ctl.                                       *)
(*                                                                         *)
(* The program makes its calls one at a time.  Its bytes go out send by    *)
(* send and come back recv by recv, and every send and recv of propagate   *)
(* reads sockfd_ anew, while write_outbufs and read_outbufs keep the one   *)
(* they were given.  The control thread holds a lock the pipes never take. *)
(* A server takes a request as one step: it is alone on its end of the     *)
(* connection.  Calls the library itself makes through the slots it has    *)
(* redirected are left out.                                                *)
(***************************************************************************)
EXTENDS SyscallPbv, FiniteSets

CONSTANTS Used,      \* calls the program makes: name, length of buffers, NULL
          MaxConns,  \* bound: connections opened, the first one included
          MaxWork,   \* bound: calls made and commands sent, together
          MaxCtl     \* bound: commands sent

ASSUME RemoteAssumption ==
    /\ Used \subseteq (DOMAIN SYSCALLS) \X (0..9) \X BOOLEAN
    /\ MaxConns \in Nat \ {0} /\ MaxWork \in 1..9 /\ MaxCtl \in 0..9

VARIABLES
    made,       \* calls the program made, in order; a call's tag is its place
    cl,         \* what the program's thread is doing
    conn,       \* connections: bytes both ways, state of both ends
    sockfd_,    \* the connection the pipes use, NoFd for -1
    ctl_pipe_fd, ctl_state,
    ctl,        \* where the control thread is, and the connection it brings
    commands, tool, inbox, \* ldx-ctl: commands sent, the last one, those queued
    executed    \* system calls the servers executed, in order

rcVars == <<made, cl, conn, sockfd_, ctl_pipe_fd, ctl_state, ctl, commands,
          tool, inbox, executed>>
control == <<sockfd_, ctl_pipe_fd, ctl_state, ctl, commands, tool, inbox>>

NoFd == 0
Conns == 1..MaxConns
Idle == [pc |-> "idle"]
Fresh == [up |-> <<>>, down |-> <<>>, client |-> "unused", server |-> FALSE]
Opened == [Fresh EXCEPT !.client = "open", !.server = TRUE]

RcInit ==
    /\ made = <<>> /\ executed = <<>> /\ cl = Idle
    /\ conn = [k \in Conns |-> IF k = 1 THEN Opened ELSE Fresh]
    /\ sockfd_ = 1 /\ ctl_pipe_fd = 1 /\ ctl_state = "connected"
    /\ ctl = [at |-> "idle"]
    /\ commands = 0 /\ tool = [st |-> "none"] /\ inbox = <<>>

(* A descriptor that can be used: one that no close has taken away.        *)
Usable(fd) == fd # NoFd /\ conn[fd].client = "open"

-----------------------------------------------------------------------------
(* The program's thread.                                                   *)
call(u) ==
    LET c == [sc |-> SYSCALLS[u[1]], sz |-> u[2], null |-> u[3],
              tag |-> Len(made) + 1]
    IN  /\ cl.pc = "idle" /\ Len(made) + commands < MaxWork
        /\ made' = Append(made, c)
        /\ cl' = [pc |-> "send", out |-> Request(c), k |-> 1, fd |-> NoFd]
        /\ UNCHANGED <<conn, control, executed>>

(* The first four sends and the count read sockfd_; the rest of            *)
(* write_outbufs keeps the descriptor of the count.  A send that fails     *)
(* sends nothing and is not noticed.                                       *)
Want(f, n) == [f |-> f, n |-> n]
SendFd == IF cl.k <= 5 THEN sockfd_ ELSE cl.fd
Send ==
    /\ cl.pc = "send"
    /\ conn' = IF Usable(SendFd) /\ conn[SendFd].server
               THEN [conn EXCEPT ![SendFd].up = @ \o Head(cl.out)] ELSE conn
    /\ cl' = IF Len(cl.out) > 1
             THEN [cl EXCEPT !.out = Tail(@), !.k = @ + 1, !.fd = SendFd]
             ELSE [pc |-> "recv", want |-> Want("err", 4), fd |-> NoFd,
                   left |-> 0, idx |-> 0, err |-> 0, res |-> <<>>]
    /\ UNCHANGED <<made, control, executed>>

(* A recv starts on sockfd_, or within read_outbufs on the descriptor of   *)
(* its count.                                                              *)
RecvStart ==
    /\ cl.pc = "recv"
    /\ cl' = [cl EXCEPT !.pc = "wait",
                        !.fd = IF cl.want.f \in {"idx", "sz", "data"} THEN @
                               ELSE sockfd_]
    /\ UNCHANGED <<made, conn, control, executed>>

(* What propagate and read_outbufs do with a received field.               *)
Caller == made[Len(made)]
Return(err, res) == [pc |-> "idle", err |-> err, res |-> res]
NextOut(me) == IF me.left = 1 THEN Return(me.err, me.res)
               ELSE [me EXCEPT !.left = @ - 1, !.want = Want("idx", 4)]
Field(me, got) ==
    LET v == Word(got.bytes)
        sc == Caller.sc
    IN  CASE me.want.f = "err" -> [me EXCEPT !.err = v, !.want = Want("retsz", 4)]
          [] me.want.f = "retsz" ->
                [me EXCEPT !.want = IF v \in 1..sc.ret THEN Want("ret", v)
                                    ELSE Want("outn", 4)]
          [] me.want.f = "ret" ->
                [me EXCEPT !.res = got.bytes, !.want = Want("outn", 4)]
          [] me.want.f = "outn" ->
                IF v = 0 \/ ptr_out_args(sc) = <<>> THEN Return(me.err, me.res)
                ELSE [me EXCEPT !.left = v, !.want = Want("idx", 4)]
          [] me.want.f = "idx" -> [me EXCEPT !.idx = v + 1, !.want = Want("sz", 4)]
          [] me.want.f = "sz" ->
                IF me.idx \in Range(ptr_out_args(sc)) /\ v > 0 /\ ~Caller.null
                THEN [me EXCEPT !.want = Want("data", v)] ELSE NextOut(me)
          [] me.want.f = "data" -> NextOut(me)

(* A recv returns: with its bytes, or failed because the peer is gone or   *)
(* the descriptor was closed before it started.  Failures are not noticed; *)
(* in the loop of read_outbufs every later recv fails too.  A connection   *)
(* that was closed while the recv waited goes with it.                     *)
RecvDone ==
    LET fd == cl.fd
        alive == fd # NoFd /\ conn[fd].client \in {"open", "dying"}
        got == IF alive THEN Recv(conn[fd].down, cl.want.n, ~conn[fd].server)
               ELSE Recv(<<>>, cl.want.n, TRUE)
        me == [cl EXCEPT !.pc = "recv"]
    IN  /\ cl.pc = "wait" /\ ~got.wait
        /\ cl' = IF ~got.ok /\ cl.want.f \in {"idx", "sz", "data"}
                 THEN Return(cl.err, cl.res) ELSE Field(me, got)
        /\ conn' = IF alive
                   THEN [conn EXCEPT ![fd].down = got.rest,
                           ![fd].client = IF @ = "dying" THEN "closed" ELSE @]
                   ELSE conn
        /\ UNCHANGED <<made, control, executed>>

-----------------------------------------------------------------------------
(* A server.  The system call succeeds with a result or fails with errno.  *)
(* When the server leaves its loop the connection is closed, and what the  *)
(* program has not yet read may be lost with it.                           *)
EIO == 5
Outcomes == {[r |-> 7, err |-> 0], [r |-> -1, err |-> EIO]}
TurnOn(k) == Turn(conn[k].up, conn[k].client = "closed")

Execute(k, t) ==
    /\ t.does = "run"
    /\ \E o \in Outcomes :
        /\ conn' = [conn EXCEPT ![k].up = t.rest,
                      ![k].down = @ \o Response(made[t.tag], o.r, o.err)]
        /\ executed' = Append(executed,
             [on |-> k, id |-> t.sc.id, tag |-> t.tag, got |-> t.got, r |-> o.r])
    /\ UNCHANGED <<made, cl, control>>

Refuse(k, t) ==
    /\ t.does = "enosys"
    /\ conn' = [conn EXCEPT ![k].up = t.rest, ![k].down = @ \o Unknown]
    /\ UNCHANGED <<made, cl, control, executed>>

Leave(k, t) ==
    /\ t.does = "stop"
    /\ \E kept \in {conn[k].down, <<>>} :
        conn' = [conn EXCEPT ![k].server = FALSE, ![k].up = <<>>, ![k].down = kept]
    /\ UNCHANGED <<made, cl, control, executed>>

ldx_sock_server_run(k) ==
    LET t == TurnOn(k)
    IN  conn[k].server /\ (Execute(k, t) \/ Refuse(k, t) \/ Leave(k, t))

-----------------------------------------------------------------------------
(* ldx-ctl: one invocation at a time sends a command and waits for the     *)
(* answer, at most ten seconds.                                            *)
Commands == {"disconnect", "reconnect", "suspend", "resume"}
send_cmd(cmd) ==
    /\ tool.st # "waiting" /\ commands < MaxCtl
    /\ Len(made) + commands < MaxWork
    /\ commands' = commands + 1
    /\ tool' = [st |-> "waiting", cmd |-> cmd, id |-> commands + 1]
    /\ inbox' = Append(inbox, [cmd |-> cmd, id |-> commands + 1])
    /\ UNCHANGED <<made, cl, conn, sockfd_, ctl_pipe_fd, ctl_state, ctl, executed>>

TimedOut ==
    /\ tool.st = "waiting" /\ tool' = [tool EXCEPT !.st = "timeout"]
    /\ UNCHANGED <<made, cl, conn, sockfd_, ctl_pipe_fd, ctl_state, ctl, commands,
                   inbox, executed>>

-----------------------------------------------------------------------------
(* The control thread, one command at a time.  Closing a connection the    *)
(* program waits on takes effect when its recv returns.                    *)
Waiting(k) == cl.pc = "wait" /\ cl.fd = k
close(cs, fd) ==
    IF fd = NoFd THEN cs
    ELSE [cs EXCEPT ![fd].client = IF Waiting(fd) THEN "dying" ELSE "closed"]

Receive(cmd) == ctl.at = "idle" /\ inbox # <<>> /\ Head(inbox).cmd = cmd

(* The answer reaches the invocation that still waits for it.              *)
Answer(st) ==
    /\ inbox' = Tail(inbox)
    /\ tool' = IF tool.st = "waiting" /\ tool.id = Head(inbox).id
               THEN [tool EXCEPT !.st = st] ELSE tool

(* Mutant of disconnect: no rewire callback was registered.                *)
DisconnectNoRewire ==
    /\ Receive("disconnect") /\ Answer("ok")
    /\ conn' = close(conn, ctl_pipe_fd)
    /\ ctl_pipe_fd' = NoFd /\ ctl_state' = "disconnected"
    /\ UNCHANGED <<made, cl, sockfd_, ctl, commands, executed>>

(* ldx_control_disconnect and ldx_control_reconnect up to the rewiring,    *)
(* both under ctl_lock, which no pipe takes.                               *)
disconnect ==
    /\ Receive("disconnect")
    /\ conn' = close(conn, ctl_pipe_fd)
    /\ ctl_pipe_fd' = NoFd /\ ctl_state' = "disconnected"
    /\ ctl' = [at |-> "rewire", fd |-> NoFd]
    /\ UNCHANGED <<made, cl, sockfd_, commands, tool, inbox, executed>>

reconnect ==
    /\ Receive("reconnect")
    /\ \E k \in Conns :
        /\ conn[k].client = "unused"
        /\ \A j \in 1..(k - 1) : conn[j].client # "unused"
        /\ conn' = [close(conn, ctl_pipe_fd) EXCEPT ![k] = Opened]
        /\ ctl_pipe_fd' = k /\ ctl_state' = "connected"
        /\ ctl' = [at |-> "rewire", fd |-> k]
    /\ UNCHANGED <<made, cl, sockfd_, commands, tool, inbox, executed>>

(* A host that cannot be resolved or connected to.                         *)
reconnect_failed ==
    /\ Receive("reconnect") /\ Answer("failed")
    /\ UNCHANGED <<made, cl, conn, sockfd_, ctl_pipe_fd, ctl_state, ctl, commands,
                   executed>>

ldx_syscall_sock_rewire ==
    /\ ctl.at = "rewire"
    /\ sockfd_' = ctl.fd /\ ctl' = [at |-> "idle"]
    /\ Answer("ok")
    /\ UNCHANGED <<made, cl, conn, ctl_pipe_fd, ctl_state, commands, executed>>

(* Neither suspend nor resume touches a pipe.                              *)
suspend ==
    /\ Receive("suspend") /\ Answer("ok")
    /\ ctl_state' = "suspended"
    /\ UNCHANGED <<made, cl, conn, sockfd_, ctl_pipe_fd, ctl, commands, executed>>

resume ==
    /\ Receive("resume") /\ Answer("ok")
    /\ ctl_state' = IF ctl_pipe_fd = NoFd THEN "disconnected" ELSE "connected"
    /\ UNCHANGED <<made, cl, conn, sockfd_, ctl_pipe_fd, ctl, commands, executed>>

RcNext ==
    \/ \E u \in Used : call(u)
    \/ Send
    \/ RecvStart
    \/ RecvDone
    \/ \E k \in Conns : ldx_sock_server_run(k)
    \/ \E cmd \in Commands : send_cmd(cmd)
    \/ TimedOut
    \/ disconnect
    \/ reconnect
    \/ reconnect_failed
    \/ ldx_syscall_sock_rewire
    \/ suspend
    \/ resume

RcSpec == RcInit /\ [][RcNext]_rcVars

-----------------------------------------------------------------------------
(* Calls whose request the server reads to its last byte: there are input  *)
(* buffers, and every buffer announced is sent.                            *)
Buffered(c) ==
    /\ ptr_in_args(c.sc) # <<>>
    /\ ~c.null \/ \A i \in Range(ptr_in_args(c.sc)) : buf_size(c, i) = 0

Sent(c) ==
    LET full == SelectSeq(ptr_in_args(c.sc), LAMBDA i : buf_size(c, i) > 0)
    IN  [k \in DOMAIN full |-> <<full[k], Contents(c, full[k])>>]

(* As long as the program has made only such calls and no connection was   *)
(* closed, the server executes the calls it made, in order, each with the  *)
(* contents of its own buffers.  (propagate and the handlers do not frame  *)
(* a request, so one byte too many in it garbles all later ones.)          *)
AlignedWhenBuffered ==
    (\A i \in DOMAIN made : Buffered(made[i])) /\ conn[1].client = "open"
      => \A j \in DOMAIN executed :
            LET e == executed[j]
                c == made[j]
            IN  /\ e.tag = j /\ e.id = c.sc.id
                /\ e.got = Sent(c)

(* A call is executed at most once and under its own name, whatever the    *)
(* stream looks like and wherever the pipes were moved.                    *)
ExecutedOnce ==
    /\ \A j \in DOMAIN executed : executed[j].id = made[executed[j].tag].sc.id
    /\ \A i, j \in DOMAIN executed : i # j => executed[i].tag # executed[j].tag


(* When ldx-ctl reports that a disconnect or a reconnect succeeded, it has *)
(* happened: the pipes have no connection, or the new one, and a command   *)
(* that an earlier ldx-ctl gave up on does not undo it.                    *)
ReportedOk ==
    tool.st = "ok" =>
        /\ tool.cmd = "disconnect" => sockfd_ = NoFd /\ ctl_state = "disconnected"
        /\ tool.cmd = "reconnect" => Usable(sockfd_) /\ sockfd_ = ctl_pipe_fd

(* While the program has made only buffered calls without output buffers,  *)
(* it and the server never wait for each other: when the bytes it wants    *)
(* have not come, there is a request the server can take.                  *)
Simple(c) == Buffered(c) /\ ptr_out_args(c.sc) = <<>>
NoMutualWait ==
    (\A i \in DOMAIN made : Simple(made[i])) /\ conn[1].client = "open"
      /\ cl.pc = "wait" /\ cl.fd = 1 /\ Len(conn[1].down) < cl.want.n
      => conn[1].server /\ TurnOn(1).does # "wait"

(* "Response: [int32 errno_val] [uint32 ret_size] [ret_data]": a call that *)
(* the server executed returns the server's result to the program.         *)
ReturnsResult ==
    cl.pc = "idle" /\ executed # <<>> /\ Len(executed) = Len(made) /\ sockfd_ = 1 =>
        LET e == executed[Len(executed)]
        IN  cl.res = SubSeq(ResultBytes(Caller.sc, e.r), 1, Caller.sc.ret)
=============================================================================

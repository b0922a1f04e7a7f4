----------------------------- MODULE SyscallPbv -----------------------------
(***************************************************************************)
(* What tools/gen_syscall_pbv.py generates: for every system call of its   *)
(* table an argument struct, the client's writer and reader of buffers,    *)
(* and the server's handler; and the bytes these put on and take from a    *)
(* socket together with SocketPipe and ldx_sock_server_run.  Nothing here  *)
(* has state.                                                              *)
(*                                                                         *)
(* A stream is a sequence of bytes.  A 32-bit word is its bytes, least     *)
(* significant first; the letters of a name are a number that no other     *)
(* byte has; an argument struct has its real size and starts with the      *)
(* number of the call.                                                     *)
(***************************************************************************)
EXTENDS Integers, Sequences, SequencesExt

(* An entry of the table: a number for the name, its length, the size of   *)
(* the result, and the arguments: a value of 4 or 8 bytes, an input buffer *)
(* ("in", "str" for a string, "fix" for a struct) or an output buffer.     *)
Sc(id, nlen, ret, args) == [id |-> id, nlen |-> nlen, ret |-> ret, args |-> args]

FileIO ==
    [read |-> Sc(1, 4, 8, <<"v4", "out", "v8">>),
     write |-> Sc(2, 5, 8, <<"v4", "in", "v8">>),
     pread |-> Sc(3, 5, 8, <<"v4", "out", "v8", "v8">>),
     pwrite |-> Sc(4, 6, 8, <<"v4", "in", "v8", "v8">>),
     close |-> Sc(5, 5, 4, <<"v4">>),
     lseek |-> Sc(6, 5, 8, <<"v4", "v8", "v4">>),
     dup |-> Sc(7, 3, 4, <<"v4">>),
     dup2 |-> Sc(8, 4, 4, <<"v4", "v4">>),
     pipe |-> Sc(9, 4, 4, <<"out">>)]

FileMetadata ==
    [stat |-> Sc(10, 4, 4, <<"str", "out">>),
     fstat |-> Sc(11, 5, 4, <<"v4", "out">>),
     lstat |-> Sc(12, 5, 4, <<"str", "out">>)]

FilesystemOps ==
    [access |-> Sc(13, 6, 4, <<"str", "v4">>),
     unlink |-> Sc(14, 6, 4, <<"str">>),
     rmdir |-> Sc(15, 5, 4, <<"str">>),
     mkdir |-> Sc(16, 5, 4, <<"str", "v4">>),
     chmod |-> Sc(17, 5, 4, <<"str", "v4">>),
     fchmod |-> Sc(18, 6, 4, <<"v4", "v4">>),
     chown |-> Sc(19, 5, 4, <<"str", "v4", "v4">>),
     fchown |-> Sc(20, 6, 4, <<"v4", "v4", "v4">>),
     link |-> Sc(21, 4, 4, <<"str", "str">>),
     symlink |-> Sc(22, 7, 4, <<"str", "str">>),
     readlink |-> Sc(23, 8, 8, <<"str", "out", "v8">>),
     chdir |-> Sc(24, 5, 4, <<"str">>),
     fchdir |-> Sc(25, 6, 4, <<"v4">>),
     umask |-> Sc(26, 5, 4, <<"v4">>),
     rename |-> Sc(27, 6, 4, <<"str", "str">>),
     truncate |-> Sc(28, 8, 4, <<"str", "v8">>),
     ftruncate |-> Sc(29, 9, 4, <<"v4", "v8">>)]

SocketOps ==
    [socket |-> Sc(30, 6, 4, <<"v4", "v4", "v4">>),
     bind |-> Sc(31, 4, 4, <<"v4", "in", "v4">>),
     connect |-> Sc(32, 7, 4, <<"v4", "in", "v4">>),
     listen |-> Sc(33, 6, 4, <<"v4", "v4">>),
     shutdown |-> Sc(34, 8, 4, <<"v4", "v4">>),
     send |-> Sc(35, 4, 8, <<"v4", "in", "v8", "v4">>),
     recv |-> Sc(36, 4, 8, <<"v4", "out", "v8", "v4">>),
     setsockopt |-> Sc(37, 10, 4, <<"v4", "v4", "v4", "in", "v4">>)]

MemoryManagement ==
    [mmap |-> Sc(38, 4, 8, <<"v8", "v8", "v4", "v4", "v4", "v8">>),
     munmap |-> Sc(39, 6, 4, <<"v8", "v8">>),
     mprotect |-> Sc(40, 8, 4, <<"v8", "v8", "v4">>)]

Process ==
    [getpid |-> Sc(41, 6, 4, <<>>),
     getppid |-> Sc(42, 7, 4, <<>>),
     getuid |-> Sc(43, 6, 4, <<>>),
     geteuid |-> Sc(44, 7, 4, <<>>),
     getgid |-> Sc(45, 6, 4, <<>>),
     getegid |-> Sc(46, 7, 4, <<>>),
     setuid |-> Sc(47, 6, 4, <<"v4">>),
     setgid |-> Sc(48, 6, 4, <<"v4">>),
     kill |-> Sc(49, 4, 4, <<"v4", "v4">>)]

Epoll ==
    [epoll_create1 |-> Sc(50, 13, 4, <<"v4">>),
     epoll_ctl |-> Sc(51, 9, 4, <<"v4", "v4", "v4", "fix">>)]

Misc ==
    [gethostname |-> Sc(52, 11, 4, <<"out", "v8">>),
     sethostname |-> Sc(53, 11, 4, <<"in", "v8">>)]

SYSCALLS == FileIO @@ FileMetadata @@ FilesystemOps @@ SocketOps
              @@ MemoryManagement @@ Process @@ Epoll @@ Misc

(* Positions of the arguments that travel with the request, and of those   *)
(* that travel with the response.                                          *)
ptr_in_args(sc) ==
    SetToSortSeq({i \in DOMAIN sc.args : sc.args[i] \in {"in", "str", "fix"}}, <)
ptr_out_args(sc) == SetToSortSeq({i \in DOMAIN sc.args : sc.args[i] = "out"}, <)

(* A call c is [sc, sz, null, tag]: sz is the length of its buffers (a     *)
(* struct always has its own), null says that its pointers are NULL.  A    *)
(* string that is there has at least its terminator.                       *)
buf_size(c, i) ==
    CASE c.sc.args[i] = "fix" -> 1
      [] c.sc.args[i] = "str" -> IF c.null THEN 0 ELSE c.sz + 1
      [] OTHER -> c.sz

(* sizeof of the argument struct: fields aligned to their size, the whole  *)
(* to its largest field; an empty struct has one byte.                     *)
RoundUp(n, a) == ((n + a - 1) \div a) * a
ArgsSize(sc) ==
    LET width(kind) == IF kind = "v4" THEN 4 ELSE 8
        end == FoldLeft(LAMBDA off, kind : RoundUp(off, width(kind)) + width(kind),
                        0, sc.args)
        align == IF \E i \in DOMAIN sc.args : sc.args[i] # "v4" THEN 8 ELSE 4
    IN  IF sc.args = <<>> THEN 1 ELSE RoundUp(end, align)

-----------------------------------------------------------------------------
(* Bytes.  Huge stands for every number that needs more than two bytes.    *)
Huge == 100000
U32(v) == <<v % 256, v \div 256, 0, 0>>
Word(b) == IF b[3] = 0 /\ b[4] = 0 /\ b[1] < 256 /\ b[2] < 256
           THEN b[1] + 256 * b[2] ELSE Huge
Copies(n, b) == [i \in 1..n |-> b]
Letters(sc) == Copies(sc.nlen, 1000 + sc.id)
Args(c) == [i \in 1..ArgsSize(c.sc) |-> IF i = 1 THEN c.tag ELSE 0]
Contents(c, i) == Copies(buf_size(c, i), 200 + c.tag)
After(s, n) == SubSeq(s, n + 1, Len(s))

(* Of each input buffer its index, its size and, unless the pointer is     *)
(* NULL, its contents, one element per send.                               *)
BufsOf(c) == FlattenSeq([k \in DOMAIN ptr_in_args(c.sc) |->
                 LET i == ptr_in_args(c.sc)[k]
                 IN  <<U32(i - 1), U32(buf_size(c, i)),
                       IF c.null THEN <<>> ELSE Contents(c, i)>>])

WriteCountsAll(c) == <<U32(Len(c.sc.args))>> \o BufsOf(c)

(* write_outbufs: a count, even when it is zero, and the input buffers.    *)
write_outbufs(c) == <<U32(Len(ptr_in_args(c.sc)))>> \o BufsOf(c)

(* What SocketPipe::propagate sends, one element per send.                 *)
Request(c) ==
    <<U32(c.sc.nlen), Letters(c.sc), U32(ArgsSize(c.sc)), Args(c)>>
      \o write_outbufs(c)

(* What a handler sends: the output buffers first, then, from its caller,  *)
(* errno, a size of eight and eight bytes of result.                       *)
ResultBytes(sc, r) ==
    [i \in 1..8 |-> IF r = -1 /\ i <= sc.ret THEN 255
                    ELSE IF r # -1 /\ i = 1 THEN r ELSE 0]
Outbufs(c) ==
    U32(Len(ptr_out_args(c.sc)))
      \o FlattenSeq([k \in DOMAIN ptr_out_args(c.sc) |->
            LET i == ptr_out_args(c.sc)[k]
            IN  U32(i - 1) \o U32(buf_size(c, i)) \o Contents(c, i)])
Response(c, r, err) == Outbufs(c) \o U32(err) \o U32(8) \o ResultBytes(c.sc, r)
ENOSYS == 38
Unknown == U32(ENOSYS) \o U32(0) \o U32(0)

-----------------------------------------------------------------------------
(* recv_all of n bytes from s: it waits while the peer may still send,     *)
(* and fails at the end of the stream with the bytes it got over a         *)
(* variable that was zero.                                                 *)
Recv(s, n, eof) ==
    [ok |-> Len(s) >= n, wait |-> Len(s) < n /\ ~eof,
     bytes |-> [i \in 1..n |-> IF i <= Len(s) THEN s[i] ELSE 0],
     rest |-> After(s, n)]

(* The handler's loop over input buffers, which ignores failures: got is   *)
(* the sequence of positions received with their contents.                 *)
RECURSIVE ReadIns(_, _, _, _, _)
ReadIns(sc, s, eof, n, got) ==
    LET idx == Recv(s, 4, eof)
        sz == Recv(idx.rest, 4, eof)
        i == Word(idx.bytes) + 1
        wanted == i \in Range(ptr_in_args(sc)) /\ Word(sz.bytes) > 0
        data == Recv(sz.rest, Word(sz.bytes), eof)
    IN  IF n = 0 THEN [wait |-> FALSE, got |-> got, rest |-> s]
        ELSE IF idx.wait \/ sz.wait \/ (wanted /\ data.wait)
             THEN [wait |-> TRUE, got |-> got, rest |-> s]
             ELSE IF wanted
                  THEN ReadIns(sc, data.rest, eof, n - 1,
                               Append(got, <<i, data.bytes>>))
                  ELSE ReadIns(sc, sz.rest, eof, n - 1, got)

(* A handler that expects input buffers reads their count and then them;   *)
(* one that expects none reads nothing.                                    *)
ServerIns(sc, s, eof) ==
    LET n == Recv(s, 4, eof)
    IN  IF ptr_in_args(sc) = <<>> THEN [wait |-> FALSE, got |-> <<>>, rest |-> s]
        ELSE IF n.wait THEN [wait |-> TRUE, got |-> <<>>, rest |-> s]
        ELSE ReadIns(sc, n.rest, eof, Word(n.bytes), <<>>)

(* One turn of ldx_sock_server_run on what has arrived: wait for more,     *)
(* leave the loop, answer ENOSYS, or run a handler.                        *)
Turn(s, eof) ==
    LET nlen == Recv(s, 4, eof)
        name == Recv(nlen.rest, Word(nlen.bytes), eof)
        size == Recv(name.rest, 4, eof)
        args == Recv(size.rest, Word(size.bytes), eof)
        found == {f \in DOMAIN SYSCALLS : name.bytes = Letters(SYSCALLS[f])}
        stop == [does |-> "stop", rest |-> <<>>]
        wait == [does |-> "wait", rest |-> s]
    IN  IF nlen.wait THEN wait
        ELSE IF ~nlen.ok \/ Word(nlen.bytes) >= 256 THEN stop
        ELSE IF name.wait THEN wait
        ELSE IF ~name.ok THEN stop
        ELSE IF size.wait THEN wait
        ELSE IF ~size.ok \/ Word(size.bytes) > 4096 THEN stop
        ELSE IF args.wait THEN wait
        ELSE IF ~args.ok THEN stop
        ELSE IF found = {} THEN [does |-> "enosys", rest |-> args.rest]
        ELSE LET sc == SYSCALLS[CHOOSE f \in found : TRUE]
                 ins == ServerIns(sc, args.rest, eof)
             IN  IF ins.wait THEN wait
                 ELSE [does |-> "run", rest |-> ins.rest, sc |-> sc,
                       tag |-> args.bytes[1], got |-> ins.got]
=============================================================================

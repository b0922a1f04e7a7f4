---------------------------- MODULE MCRemoteCalls ----------------------------
(***************************************************************************)
(* RemoteCalls for TLC.  The calls cover the kinds of arguments: values    *)
(* only, an input buffer, two strings, an output buffer, and a struct that *)
(* is NULL, as in epoll_ctl with EPOLL_CTL_DEL.                            *)
(***************************************************************************)
EXTENDS RemoteCalls

MCUsed == {<<"close", 0, FALSE>>, <<"write", 1, FALSE>>, <<"read", 1, FALSE>>,
           <<"rename", 0, FALSE>>, <<"epoll_ctl", 0, TRUE>>}
MCOneCall == {<<"write", 1, FALSE>>}
=============================================================================

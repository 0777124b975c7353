--------------------------- MODULE SessionHandles ---------------------------
(***************************************************************************)
(* What a connection owns: the client's session with the frames it         *)
(* received, the server, and the named pipes.  Source: src/src/session.c,  *)
(* the transfer of handles in platform_posix.c and platform_win32.c, and   *)
(* the pipes of socket_win32.c.                                            *)
(***************************************************************************)
EXTENDS HandleSteps

(* Two buffers, so that a handshake can break off between them. *)
FrameOf(i) == IF i = 1 THEN "frame1" ELSE "frame2"
FdOf(i) == IF i = 1 THEN "fd1" ELSE "fd2"
SyncOf(i) == IF i = 1 THEN "sync1" ELSE "sync2"
ViewOf(i) == IF i = 1 THEN "view1" ELSE "view2"
SurfaceOf(i) == IF i = 1 THEN "surface1" ELSE "surface2"

(* session_free_consumer_frames: view, fence, handle, then the frame. *)
FreeFrame(i) == Free(<<ViewOf(i), SyncOf(i), FdOf(i), FrameOf(i)>>)
FreeConsumerFrames == FreeFrame(1) \o FreeFrame(2)

(* The error label of session_connect, and session_close. *)
ConnectError == Free(<<"shm", "shm_fd">>) \o FreeConsumerFrames
                \o Free(<<"sock", "session">>)
SessionClose == Free(<<"shm", "shm_fd", "sock">>) \o FreeConsumerFrames
                \o Free(<<"session">>)

(* texlink_frame_recv_native_handle: a descriptor arrives with the message; a
   Win32 handle was made in this process by the server, and becomes known here. *)
RecvFdPosix(i) == Get(FdOf(i))
RemoteOf(i) == IF i = 1 THEN "remote1" ELSE "remote2"
RecvHandleWin32(i) == Check \o Move(RemoteOf(i), FdOf(i))
RemoteSyncOf(i) == IF i = 1 THEN "remotesync1" ELSE "remotesync2"
RecvSyncWin32(i) == Check \o Move(RemoteSyncOf(i), SyncOf(i))

(* texlink_send_ipc_handles on Win32: DuplicateHandle into the client's process
   for every frame; the server does not wait for the client to read them.      *)
SendHandlesWin32 ==
    Got(RemoteOf(1)) \o Got(RemoteSyncOf(1)) \o Got(RemoteOf(2)) \o Got(RemoteSyncOf(2))

(* The connection, what the server does to the client's process meanwhile, the
   handshake that is received and checked, and the session.                   *)
Greeted(sent) == Get("sock") \o sent \o OnError(Check \o Get("session"), Free(<<"sock">>))

OpenCounters == OnError(Get("shm_fd") \o Get("shm"), ConnectError)

ConnectPosix ==
    Greeted(<<>>)
    \o OnError(Check \o Get(FrameOf(1)) \o RecvFdPosix(1)
                     \o Get(FrameOf(2)) \o RecvFdPosix(2), ConnectError)
    \o OpenCounters

ConnectWin32 ==
    Greeted(SendHandlesWin32)
    \o OnError(Check \o Get(FrameOf(1)) \o RecvHandleWin32(1) \o RecvSyncWin32(1)
                     \o Get(FrameOf(2)) \o RecvHandleWin32(2) \o RecvSyncWin32(2), ConnectError)
    \o OpenCounters

(* On macOS a handle is the number of a surface. *)
ConnectDarwin ==
    Greeted(<<>>)
    \o OnError(Check \o Get(FrameOf(1)) \o Check \o Get(FrameOf(2)) \o Check, ConnectError)
    \o OpenCounters

(* An acquired fence replaces the one of the frame, or is closed when the wait
   for it times out; a frame is mapped and unmapped.                           *)
AcquireFence ==
    Get("fence") \o OnError(Check, Free(<<"fence">>))
    \o Free(<<SyncOf(1)>>) \o Move("fence", SyncOf(1))

MapView == Once(ViewOf(1))
UnmapView == Free(<<ViewOf(1)>>)

(* frame_ensure_iosurface: a received frame looks its surface up when it is first
   mapped.  The mapping is the lock of the surface, and not among what
   session_free_consumer_frames releases.                                         *)
MapSurface == Once(SurfaceOf(1)) \o Once("lock1")
UnmapSurface == Need("lock1") \o Free(<<"lock1">>)

-----------------------------------------------------------------------------
(* The server.  A start that fails leaves what it has got to destroy; shm_open
   may succeed and its ftruncate fail, and then nobody knows the descriptor.   *)
ServerCreate == Get("server")
ServerStart == Got("listen_fd") \o Got("shm_fd") \o Got("shm")
ServerHalfShm == Got("listen_fd") \o Got("half_shm_fd")
ServerDestroy ==
    Free(<<"client_fd", "listen_fd", "shm", "shm_fd", "server">>)

(* A client is accepted into a slot, or closed when none is free; it is dropped. *)
AcceptIntoSlot == Need("shm") \o Once("client_fd")
AcceptRefused == Need("shm") \o Get("refused_fd") \o Free(<<"refused_fd">>)
DropClient == Free(<<"client_fd">>)

(* The prefixes a failing start may leave. *)
Prefixes(s) == {SubSeq(s, 1, k) : k \in 0..Len(s)}

-----------------------------------------------------------------------------
(* Named pipes.  socket_alloc fails without closing the pipe it was given. *)
SocketAlloc(socket) == Get(socket)
PipeBind == Get("instance") \o SocketAlloc("listener")
PipeConnect == Get("pipe") \o SocketAlloc("socket")

(* texlink_socket_accept: the listening instance becomes the client's, and the
   next one is created; without it the client is closed and the listener stays
   without an instance, and every later poll fails.                            *)
PipeAccept ==
    Need("instance") \o Move("instance", "client_pipe")
    \o OnError(Get("instance"), Free(<<"client_pipe">>)) \o SocketAlloc("client")
    \o Free(<<"client_pipe", "client">>)

PipeListenerClose == Free(<<"instance", "listener">>)
PipeClose == Free(<<"pipe", "socket">>)

SessionObjects == {
    Object("posix session", {}, {}, {ConnectPosix}, {AcquireFence, MapView, UnmapView},
           {SessionClose}),
    Object("win32 session", {}, {}, {ConnectWin32}, {MapView, UnmapView}, {SessionClose}),
    Object("darwin session", {}, {}, {ConnectDarwin}, {MapSurface, UnmapSurface}, {SessionClose}),
    Object("server", {}, {},
           {ServerCreate \o s : s \in Prefixes(ServerStart) \cup {ServerHalfShm}},
           {AcceptIntoSlot, AcceptRefused, DropClient}, {ServerDestroy}),
    Object("listener", {}, {}, {PipeBind}, {PipeAccept}, {PipeListenerClose}),
    Object("pipe", {}, {}, {PipeConnect}, {}, {PipeClose}) }
=============================================================================

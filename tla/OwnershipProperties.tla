------------------------- MODULE OwnershipProperties -------------------------
(***************************************************************************)
(* What the owners of native resources may never do, on any path through   *)
(* any of their functions.  Where the code does it nevertheless, the path  *)
(* is an exception here by its object and resource, and nothing else is.   *)
(***************************************************************************)
EXTENDS Ownership

Structures == {"frame", "image", "buffer", "memory", "tf", "ff", "session", "server",
               "listener", "socket"}

(* Every variable has its type; a caller is never handed an object whose structure
   has been freed, and once an object is gone nothing is named.  About: the error
   labels, which all have to end in a return of NULL.                             *)
TypeOK ==
    /\ object \in Objects
    /\ stage \in Stages
    /\ stage \in {"idle", "live"} => todo = <<>>
    /\ stage = "live" => open \cap Structures # {}
    /\ stage = "idle" => open = {} /\ set = {}
    /\ \A f \in faults : f[1] \in {"twice", "lost", "early", "borrowed", "taken"}

(* Faults of this kind are found with these objects and resources only. *)
Only(kind, exceptions) ==
    \A f \in faults : f[1] = kind => \E e \in exceptions : object.name \in e[1] /\ f[2] \in e[2]

(* No descriptor, handle or structure is given back a second time, on any path.  Three
   creators do: when calloc fails in texlink_frame_create_from_native_handle it closes
   the handle, and they close it again (backend_vulkan_posix.c:285, 421,
   backend_d3d12.c:336).                                                              *)
ClosedOnce ==
    Only("twice", {<<{"vk image frame", "vk buffer frame", "d3d12 fence"}, {"fd"}>>})

WglFrames == {"wgl texture frame", "wgl imported frame"}

(* Whatever an object acquired has been given back when it is gone, and whatever a
   failing call acquired when it returns.  The exceptions are an exported handle that
   the frame refuses to adopt, or that is made before the steps that fail
   (backend_vulkan_posix.c:329, 454, backend_vulkan_win32.c:282, backend_egl.c:221,
   backend_d3d11.c:250, backend_d3d12.c:179, backend_wgl.c:276), the interoperation
   objects of a WGL frame destroyed without a context (backend_wgl.c:115), CFNumbers
   behind the one that failed (frame_darwin.c:126), a client's IOSurface
   (platform_posix.c:193), the counters' descriptor after ftruncate (platform_posix.c:15),
   a pipe without a socket structure (socket_win32.c:36), and the handles made in a
   client that gave up (socket_win32.c:179).                                          *)
NothingLost ==
    Only("lost", {
        <<{"vk wrapped frame", "vk win32 wrapped frame", "vk win32 image frame",
           "egl wrapped frame", "d3d11 wrapped frame", "d3d12 wrapped frame",
           "wgl texture frame"}, {"fd"}>>,
        <<WglFrames, {"lock", "dx_object", "dx_device"}>>,
        <<{"darwin frame", "cgl texture frame", "metal texture frame"}, {"after"}>>,
        <<{"darwin session"}, {"surface1", "lock1"}>>,
        <<{"server"}, {"half_shm_fd"}>>,
        <<{"listener"}, {"instance", "client_pipe"}>>,
        <<{"pipe"}, {"pipe"}>>,
        <<{"win32 session"}, {"remote1", "remotesync1", "remote2", "remotesync2"}>> })

(* Nothing is given back while something made from it is open: images before their
   memory, mappings before their range, the lock before the object before the device of
   the interoperation.  A WGL frame destroyed without a context is the exception.     *)
ChildrenFirst == Only("early", {<<WglFrames, {"texture", "texture2d", "device"}>>})

(* The application's own handles stay open through every call, and a handle that was
   handed to a call that failed is still the application's.  The exceptions are the
   same calloc in texlink_frame_create_from_native_handle (frame_posix.c:268,
   frame_win32.c:145), which closes what it was given and even a legacy Direct3D 11
   handle that it never owns.                                                         *)
BorrowedKept ==
    LET legacy == {"win32 legacy frame", "d3d11 texture frame", "d3d11 wrapped frame",
                   "wgl texture frame"}
    IN  /\ Only("borrowed", {<<legacy, {"app"}>>})
        /\ Only("taken", {<<legacy, {"app"}>>,
                          <<{"posix adopted frame", "win32 adopted frame"}, {"fd"}>>})

(* Between two calls an object names nothing that has been given back, whatever calls
   came before and wherever they failed: each release also clears its field.          *)
NoDangling == stage = "live" => set \subseteq open
=============================================================================

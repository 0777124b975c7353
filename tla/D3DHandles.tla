----------------------------- MODULE D3DHandles -----------------------------
(***************************************************************************)
(* What the Direct3D and WGL objects own.  Source:                         *)
(* src/src/backend_d3d11.c, backend_d3d12.c, backend_wgl.c.                *)
(***************************************************************************)
EXTENDS FrameHandles

-----------------------------------------------------------------------------
(* Direct3D 11.  A device comes with its context.  A texture with the NT flag has
   a handle of its own, created for the caller; any other only names itself.      *)
D3D11Device == Get("device") \o Got("context")
SharedHandleNt == Get("interface") \o OnError(Get("fd"), Free(<<"interface">>))
                  \o Free(<<"interface">>)
SharedHandleLegacy == Get("interface") \o OnError(Check, Free(<<"interface">>))
                      \o Free(<<"interface">>)

D3D11Release(frame) == frame \o Free(<<"texture2d", "context", "device", "tf">>)

(* create_shared_texture: fails when the texture is refused with either flag. *)
SharedTexture(handle) == Check \o Get("texture2d") \o handle

(* The frame of a fresh texture, whose size has passed CreateTexture2D, is made last:
   where it fails there is none to destroy.                                        *)
LegacyValid == OnError(Get("frame"), Close(<<"app">>))

D3D11Create ==
    {Check \o Get("tf")
        \o OnError(D3D11Device \o SharedTexture(way[1]) \o way[2],
                   D3D11Release(<<>>))
        : way \in {<<SharedHandleNt, AdoptValid>>, <<SharedHandleLegacy, LegacyValid>>}}

(* open_shared_texture: an NT handle takes the newer interface of the device. *)
OpenSharedTexture == {
    Get("interface") \o OnError(Get("texture2d"), Free(<<"interface">>))
        \o Free(<<"interface">>),
    Get("texture2d") }

D3D11Import ==
    {Check \o Get("tf") \o OnError(D3D11Device \o open, D3D11Release(<<>>))
        : open \in OpenSharedTexture}

(* texlink_d3d11_frame_wrap_texture, without a handle. *)
D3D11Wrap == {Check \o SharedHandleNt \o AdoptWin32, Check \o SharedHandleLegacy \o LegacyWin32}

-----------------------------------------------------------------------------
(* Direct3D 12.  wrap_resource duplicates a handle it is given, and hands over one
   it makes; the creation of a texture gives it one and closes its own.           *)
D3D12Release(frame) == frame \o Free(<<"resource", "device", "tf">>)

DupValid == Get("fd") \o OnError(Get("frame"), Close(<<"fd">>))
D3D12Create ==
    Check \o Get("tf")
    \o OnError(Got("device") \o Check \o Get("resource") \o Get("shared")
               \o OnError(DupValid, Free(<<"shared">>)), D3D12Release(<<>>))
    \o Free(<<"shared">>)

D3D12Import ==
    Check \o Get("tf") \o OnError(Got("device") \o Get("resource"), D3D12Release(<<>>))

D3D12Wrap == {Check \o Get("fd") \o AdoptWin32, DupWin32}

(* A fence: its handle is closed again when the frame could not be allocated. *)
FenceRelease(frame) == frame \o Free(<<"fence", "device", "ff">>)
FenceCreate ==
    Check \o Get("ff")
    \o OnError(Got("device") \o Get("fence") \o Get("fd")
               \o OnError(AdoptValid, Close(<<"fd">>)), FenceRelease(<<>>))
FenceImport ==
    Check \o Get("ff") \o OnError(Got("device") \o Get("fence"), FenceRelease(<<>>))

-----------------------------------------------------------------------------
(* WGL.  dx_device and dx_object are the interoperation's device and object of the
   texture, lock the right to draw; they are given back only if the functions of
   the extension can be looked up, which takes a current context.                 *)
RegisterGlTexture == Check \o Get("texture") \o Get("dx_device") \o Get("dx_object")

WglReleaseRest(frame) == Free(<<"texture", "texture2d", "context", "device">>) \o frame
                         \o Free(<<"tf">>)
WglReleaseDeviceFirst(frame) ==
    Free(<<"lock", "dx_device", "dx_object">>) \o WglReleaseRest(frame)

WglRelease(frame) == Free(<<"lock", "dx_object", "dx_device">>) \o WglReleaseRest(frame)

(* The NT handle has no owner before the frame adopts it. *)
WglCreate ==
    {Check \o Get("tf")
        \o OnError(D3D11Device \o SharedTexture(way[1]) \o RegisterGlTexture \o way[2],
                   WglRelease(<<>>))
        : way \in {<<SharedHandleNt, AdoptValid>>, <<SharedHandleLegacy, LegacyValid>>}}

WglImport ==
    {Check \o Get("tf") \o OnError(D3D11Device \o open \o RegisterGlTexture, WglRelease(<<>>))
        : open \in OpenSharedTexture}

WglLock == Check \o Once("lock")
WglUnlock == Need("lock") \o Check \o Free(<<"lock">>)

-----------------------------------------------------------------------------
D3DObjects == {
    Object("d3d11 texture frame", {"app"}, {}, D3D11Create, FrameUseWin32,
           {D3D11Release(FrameDestroyWin32)}),
    Object("d3d11 imported frame", {"app"}, {}, D3D11Import, {}, {D3D11Release(<<>>)}),
    Object("d3d11 wrapped frame", {"app"}, {}, D3D11Wrap, FrameUseWin32,
           {FrameDestroyWin32}),
    Object("d3d12 texture frame", {"app"}, {}, {D3D12Create}, FrameUseWin32,
           {D3D12Release(FrameDestroyWin32)}),
    Object("d3d12 imported frame", {"app"}, {}, {D3D12Import}, {}, {D3D12Release(<<>>)}),
    Object("d3d12 wrapped frame", {"app"}, {}, D3D12Wrap, FrameUseWin32,
           {FrameDestroyWin32}),
    Object("d3d12 fence", {"app"}, {}, {FenceCreate}, FrameUseWin32,
           {FenceRelease(FrameDestroyWin32)}),
    Object("d3d12 imported fence", {"app"}, {}, {FenceImport}, {}, {FenceRelease(<<>>)}),
    Object("wgl texture frame", {"app"}, {}, WglCreate, FrameUseWin32 \cup {WglLock, WglUnlock},
           {WglRelease(FrameDestroyWin32), WglReleaseRest(FrameDestroyWin32)}),
    Object("wgl imported frame", {"app"}, {}, WglImport, {WglLock, WglUnlock},
           {WglRelease(<<>>), WglReleaseRest(<<>>)}) }
=============================================================================

----------------------------- MODULE GlHandles -----------------------------
(***************************************************************************)
(* What the EGL, CGL and Metal objects own.  Source:                       *)
(* src/src/backend_egl.c, backend_cgl.c, backend_metal.m.                  *)
(***************************************************************************)
EXTENDS FrameHandles

-----------------------------------------------------------------------------
(* EGL.  The descriptor of an imported frame is only borrowed. *)
EglImportCloses == Check \o Get("egl_image") \o Get("image") \o Close(<<"app">>)
EglImport == Check \o Get("egl_image") \o OnError(Get("image"), Free(<<"egl_image">>))
EglImageDestroy == Free(<<"egl_image", "image">>)

EglTextureDestroy ==
    Free(<<"texture">>) \o EglImageDestroy \o FrameDestroyPosix \o Free(<<"tf">>)

(* A failure destroys what there is of the texture frame. *)
EglTextureCreate ==
    Check \o Get("tf") \o OnError(Check \o AllocGbm \o EglImport \o Get("texture") \o Check,
                                  EglTextureDestroy)

(* The texture becomes an EGL image, which lives until it has been exported.  A
   descriptor with an offset is refused.                                         *)
EglExport == Get("fd") \o Check
EglWrapTexture ==
    Check \o Get("egl_image")
    \o OnError(Check \o OnError(EglExport, Free(<<"fd">>)), Free(<<"egl_image">>))
    \o Free(<<"egl_image">>) \o AdoptFdPosix

-----------------------------------------------------------------------------
(* CGL.  The surface of the frame is looked up for the time of the call. *)
BindFrameToTexture ==
    Check \o Get("lookup") \o OnError(Check \o Get("texture"), Free(<<"lookup">>))
    \o Free(<<"lookup">>) \o Check

CglRelease(frame) == Free(<<"texture">>) \o frame \o Free(<<"tf">>)

(* For each of the ways the creation of the frame may take. *)
CglCreate ==
    {Check \o Get("tf") \o OnError(f \o BindFrameToTexture, CglRelease(FrameDestroyDarwin))
        : f \in FrameCreateDarwin}
CglImport == Check \o Get("tf") \o OnError(BindFrameToTexture, CglRelease(<<>>))

-----------------------------------------------------------------------------
(* Metal: the application's device is retained, or one is created. *)
MetalTexture ==
    Get("device") \o Check
    \o Get("lookup") \o OnError(Get("texture"), Free(<<"lookup">>)) \o Free(<<"lookup">>)

MetalRelease(frame) == Free(<<"texture", "device">>) \o frame \o Free(<<"tf">>)

MetalCreate ==
    {Check \o Get("tf") \o OnError(f \o MetalTexture, MetalRelease(FrameDestroyDarwin))
        : f \in FrameCreateDarwin}
MetalImportReturns ==
    Check \o Get("tf") \o OnError(MetalTexture, MetalRelease(<<>>) \o Again)
MetalImport == Check \o Get("tf") \o OnError(MetalTexture, MetalRelease(<<>>))
MetalWrap == Check \o LookupDarwin

-----------------------------------------------------------------------------
GlObjects == {
    Object("egl image", {"app"}, {}, {EglImport}, {}, {EglImageDestroy}),
    Object("egl texture frame", {}, {}, {EglTextureCreate}, FrameUsePosix,
           {EglTextureDestroy}),
    Object("egl wrapped frame", {"app"}, {}, {EglWrapTexture}, FrameUsePosix,
           {FrameDestroyPosix}),
    Object("cgl texture frame", {}, {}, CglCreate, {MapDarwin, UnmapDarwin},
           {CglRelease(FrameDestroyDarwin)}),
    Object("cgl imported frame", {"app"}, {}, {CglImport}, {}, {CglRelease(<<>>)}),
    Object("metal texture frame", {}, {}, MetalCreate, {MapDarwin, UnmapDarwin},
           {MetalRelease(FrameDestroyDarwin)}),
    Object("metal imported frame", {"app"}, {}, {MetalImport}, {}, {MetalRelease(<<>>)}),
    Object("metal wrapped frame", {"app"}, {}, {MetalWrap}, {MapDarwin, UnmapDarwin},
           {FrameDestroyDarwin}) }
=============================================================================

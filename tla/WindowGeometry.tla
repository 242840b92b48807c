--------------------------- MODULE WindowGeometry ---------------------------
(***************************************************************************)
(* Where a layer's pixels come from and go to.  A frame's layer is prepa-  *)
(* red (doPreProcess aligns a video's crop), offered to a channel of the   *)
(* display, to a scaler in front of one and to the G2D (isSupported),      *)
(* turned into a window of the display controller or a part of a composi-  *)
(* tion target (configureHandle, configureOverlay), and checked once more  *)
(* before the commit (validateWinConfigData).  The checks are made at      *)
(* different times with different roundings; an error of the last one      *)
(* switches the display's planes off.                                      *)
(*                                                                         *)
(* One axis stands for both, which the code treats alike.  A span is a     *)
(* pair <<l, r>> of the pixels l .. r - 1.  Formats are RGB and YUV, the   *)
(* two classes of the size restrictions.  Whether a channel or an engine   *)
(* has the capacity for a layer is a choice.                               *)
(***************************************************************************)
EXTENDS Integers, FiniteSets, FiniteSetsExt

CONSTANTS
    mXres,         \* pixels of the display
    Channel,       \* restrictions of the display's channels,
    Scaler,        \* of the scaler and
    G2d,           \* of the G2D, as records of Capabilities
    GeoLayers,     \* the layers of the frames
    Companions,    \* frames of the layer SurfaceFlinger composes; <<0, 0>> for none
    TargetStride,  \* stride of the targets and of the scaler's buffers
    UintWrap       \* 2^w, w the width of an unsigned size

Capabilities == [down : Nat \ {0}, up : Nat \ {0}, max : Nat, min : Nat, align : Nat \ {0},
                 yuv : BOOLEAN, rgb : BOOLEAN, hdr : BOOLEAN]
LayerShapes == [yuv : BOOLEAN, drm : BOOLEAN, hdr : BOOLEAN, fraction : BOOLEAN, stride : Nat,
                crop : Nat \X Nat, frame : Int \X Int]

\* YUV_CHROMA_H_SUBSAMPLE
Subsample == 2
Larger(a, b) == IF a < b THEN b ELSE a

ASSUME GeometryAssumption ==
    /\ mXres \in Nat \ {0} /\ TargetStride \in Nat /\ UintWrap \in Nat
    /\ {Channel, Scaler, G2d} \subseteq Capabilities /\ Companions \subseteq Int \X Int
    /\ \A l \in GeoLayers : l \in LayerShapes /\ l.crop[1] < l.crop[2] /\ l.crop[2] <= l.stride
                            /\ l.frame[1] < l.frame[2]
    \* An image of the smallest size keeps a pixel when it is aligned at both ends.
    /\ \A m \in {Channel, Scaler, G2d} : m.min >= 2 * Larger(m.align, Subsample)
    /\ TargetStride >= mXres /\ TargetStride <= Channel.max /\ UintWrap > Channel.max

VARIABLE geo
    \* at, the layer, its crop and frame after doPreProcess, how it is shown,
    \* the scaler's output, the windows and the result of the frame

NoSpan == <<0, 0>>
Width(s) == s[2] - s[1]
NoImage == [x |-> 0, w |-> 0, full |-> 0, yuv |-> FALSE, hdr |-> FALSE, drm |-> FALSE]

FirstOf(l, c) ==
    [at |-> "prepare", layer |-> l, companion |-> c, crop |-> l.crop, frame |-> l.frame,
     path |-> "none", mid |-> NoImage, windows |-> {}, ret |-> "none"]

GeometryInit == \E l \in GeoLayers, c \in Companions : geo = FirstOf(l, c)

-----------------------------------------------------------------------------
\* pixel_align, pixel_align_down and the arithmetic of uint32_t.
AlignUp(x, a) == ((x + a - 1) \div a) * a
AlignDown(x, a) == (x \div a) * a
Uint(n) == n % UintWrap
CeilDiv(a, b) == (a + b - 1) \div b

\* The restrictions of an engine or a channel for a class of formats.
SizeAlign(m, yuv) == IF yuv THEN Larger(m.align, Subsample) ELSE m.align
MaxFull(m, yuv) == IF yuv THEN Larger(m.max, TargetStride) ELSE m.max

SrcImage == [x |-> geo.crop[1], w |-> Width(geo.crop), full |-> geo.layer.stride,
             yuv |-> geo.layer.yuv, hdr |-> geo.layer.hdr, drm |-> geo.layer.drm]
\* The layer's place on the display, as an RGB image.
DstImage == [x |-> geo.frame[1], w |-> Width(geo.frame), full |-> mXres,
             yuv |-> FALSE, hdr |-> FALSE, drm |-> geo.layer.drm]

\* isSupportedHDR, isDataspaceSupportedByMPP: HDR is passed on or converted.
SupportsHdr(m, src, dst) == src.hdr => m.hdr \/ dst.hdr

SupportsFormats(m, src, dst) ==
    /\ IF src.yuv THEN m.yuv ELSE m.rgb
    /\ SupportsHdr(m, src, dst)

\* The checks a protected image is spared.
CropIsAligned(m, src) ==
    /\ src.w <= m.max
    /\ src.w % SizeAlign(m, src.yuv) = 0
    /\ src.x % SizeAlign(m, src.yuv) = 0

\* ExynosMPP::isSupported.
IsSupported(m, src, dst) ==
    /\ dst.w >= m.min /\ dst.w <= m.max
    /\ SupportsFormats(m, src, dst)
    /\ src.full >= m.min /\ src.w >= m.min
    /\ dst.w % SizeAlign(m, dst.yuv) = 0
    /\ src.w <= dst.w * m.down /\ dst.w <= src.w * m.up
    /\ src.full <= MaxFull(m, src.yuv)
    /\ src.full % SizeAlign(m, src.yuv) = 0
    /\ src.drm \/ CropIsAligned(m, src)
    /\ dst.x % SizeAlign(m, dst.yuv) = 0

-----------------------------------------------------------------------------
(* Mutant: the crop's left edge is moved outwards.                         *)
AlignedCropOutwards(s) ==
    LET a == SizeAlign(Channel, TRUE) IN
    LET left == AlignDown(s[1], a)
    IN  <<left, left + AlignDown(s[2] - left, a)>>

\* A video's crop is moved inwards to the alignment of a channel.
AlignedCrop(s) ==
    LET a == SizeAlign(Channel, TRUE) IN
    LET left == AlignUp(s[1], a)
    IN  <<left, left + AlignDown(s[2] - left, a)>>

\* The frame of a protected or HDR video is at least as wide as a channel's
\* smallest window, and is moved left when it would leave the display.
WidenedFrame(s) ==
    LET w == AlignUp(Width(s), Channel.min)
    IN  IF Width(s) >= Channel.min THEN s
        ELSE IF s[1] + w > mXres THEN <<mXres - w, mXres>>
        ELSE <<s[1], s[1] + w>>

\* doPreProcess.
PrepareLayer ==
    /\ geo.at = "prepare"
    /\ geo' = [geo EXCEPT !.at = "assign",
           !.crop = IF geo.layer.yuv THEN AlignedCrop(@) ELSE @,
           !.frame = IF geo.layer.yuv /\ (geo.layer.drm \/ geo.layer.hdr) THEN WidenedFrame(@)
                     ELSE @]

\* validateLayer: a video's crop has been rounded to pixels.
OnDisplay(s) == s[1] >= 0 /\ s[2] <= mXres
ValidLayer == /\ geo.layer.yuv \/ ~geo.layer.fraction
              /\ OnDisplay(geo.frame)

\* getAlignedImage.
AlignedImage(img, m2m, otf) ==
    [img EXCEPT !.w = AlignUp(@, Larger(IF otf THEN SizeAlign(Channel, img.yuv) ELSE 1,
                                        IF m2m THEN SizeAlign(Scaler, img.yuv) ELSE 1))]

MidImage(w, yuv, hdr) == [x |-> 0, w |-> w, full |-> mXres, yuv |-> yuv, hdr |-> hdr,
                          drm |-> geo.layer.drm]

\* getCandidateScalingM2mMPPOutImages: the scaler does what the channel cannot.
ScaledImages(src, dst) ==
    LET upTwice == src.w * Channel.up < dst.w
        m2mUp == Scaler.up * src.w * Channel.up > dst.w
        downTwice == dst.w * Scaler.down < src.w
        otfDown == Channel.down * dst.w >= src.w \div Scaler.down
        mid(w) == MidImage(w, src.yuv, src.hdr)
    IN  CASE src.w < dst.w ->
               IF Channel.up = 1 /\ ~m2mUp THEN {}
               ELSE {AlignedImage(mid(IF upTwice THEN CeilDiv(dst.w, Channel.up) ELSE src.w),
                                  m2mUp, Channel.up > 1)}
          [] src.w > dst.w ->
               IF Scaler.down = 1 /\ ~otfDown THEN {}
               ELSE {AlignedImage(mid(IF downTwice THEN CeilDiv(src.w, Scaler.down) ELSE dst.w),
                                  Scaler.down > 1, otfDown)}
          [] OTHER -> {}

\* getCandidateM2mMPPOutImages: a size the channel shows as it is, in the
\* layer's class of formats, aligned for dynamic HDR, or as RGB.
CandidateImages(src, dst) ==
    ScaledImages(src, dst)
    \cup {MidImage(dst.w, src.yuv, src.hdr), MidImage(dst.w, FALSE, FALSE)}
    \cup (IF src.hdr THEN {MidImage(AlignUp(dst.w, SizeAlign(Channel, src.yuv)), src.yuv, TRUE)}
          ELSE {})

ToChannel == IsSupported(Channel, SrcImage, DstImage)
ToScaler == {mid \in CandidateImages(SrcImage, DstImage) :
                /\ IsSupported(Scaler, SrcImage, mid)
                /\ IsSupported(Channel, mid, DstImage)}

\* updateSupportedMPPFlag and assignLayer; capacity and windows may be short.
AssignPath(path, mid) ==
    /\ geo.at = "assign"
    /\ \/ path = "otf" /\ ValidLayer /\ ToChannel /\ mid = NoImage
       \/ path = "m2m" /\ ValidLayer /\ mid \in ToScaler
       \/ path = "exynos" /\ ValidLayer /\ IsSupported(G2d, SrcImage, DstImage) /\ mid = NoImage
       \/ path = "client" /\ mid = NoImage
    /\ geo' = [geo EXCEPT !.at = "configure", !.path = path, !.mid = mid]

-----------------------------------------------------------------------------
\* What configureHandle reads of the source: the layer's buffer, or that of
\* the scaler, which is as wide as the display.
SourceOfWindow ==
    IF geo.path = "m2m" THEN [geo.mid EXCEPT !.full = TargetStride] ELSE SrcImage

Clipped(s) == <<Larger(s[1], 0), IF s[2] > mXres THEN mXres ELSE s[2]>>

\* What is left of w pixels from x in f_w ones.
Trimmed(x, w, full) == IF x + w > full THEN Uint(full - x) ELSE w

\* configureHandle: the window of a layer.
LayerWindow ==
    LET s == SourceOfWindow
        a == SizeAlign(Channel, s.yuv) IN
    LET full == AlignDown(IF s.full > MaxFull(Channel, s.yuv) THEN MaxFull(Channel, s.yuv)
                          ELSE s.full, a)
        x == AlignUp(s.x, a) IN
    LET w == Trimmed(x, s.w, full)
    IN  [of |-> "layer", x |-> x, w |-> AlignDown(IF w > Channel.max THEN Channel.max ELSE w, a),
         full |-> full, yuv |-> s.yuv, dst |-> Clipped(geo.frame)]

(* Mutant: the width is aligned without what the left edge was moved by.   *)
CropKeepsWidth(frames) ==
    LET l == Min({s[1] : s \in frames} \cup {mXres})
        r == Max({s[2] : s \in frames} \cup {0})
        left == AlignDown(l, Channel.align)
    IN  <<left, left + AlignUp(Larger(r - l, Channel.min), Channel.align)>>

\* The smallest and then the aligned span around a set of frames.
CompositionCrop(frames) ==
    LET l == Min({s[1] : s \in frames} \cup {mXres})
        r == Max({s[2] : s \in frames} \cup {0})
        w == Larger(r - l, Channel.min)
        x == IF r - l < Channel.min THEN Larger(l - (Channel.min - (r - l)), 0) ELSE l IN
    LET left == AlignDown(x, Channel.align)
    IN  <<left, left + AlignUp(w + (x - left), Channel.align)>>

\* configureOverlay of a composition target; the whole display when the crop
\* leaves it.  The layers' own frames count, not the prepared ones.
TargetWindow(of, frames) ==
    LET crop == CompositionCrop(frames)
        span == IF OnDisplay(crop) THEN crop ELSE <<0, mXres>>
    IN  [of |-> of, x |-> span[1], w |-> Width(span), full |-> TargetStride, yuv |-> FALSE,
         dst |-> span]

Composed(of) == (IF geo.path = of THEN {geo.layer.frame} ELSE {})
                \cup (IF of = "client" /\ geo.companion # NoSpan THEN {geo.companion} ELSE {})

Targets == {of \in {"client", "exynos"} : Composed(of) # {}}

\* setWinConfigData.
ConfigureWindows ==
    /\ geo.at = "configure"
    /\ geo' = [geo EXCEPT !.at = "deliver",
           !.windows = {TargetWindow(of, Composed(of)) : of \in Targets}
                       \cup (IF geo.path \in {"otf", "m2m"} THEN {LayerWindow} ELSE {})]

\* validateWinConfigData for a window.
WindowIsValid(c) ==
    /\ c.x >= 0 /\ c.dst[1] >= 0 /\ c.w > 0 /\ Width(c.dst) > 0
    /\ c.dst[2] <= mXres
    /\ c.w <= c.full
    /\ c.x % SizeAlign(Channel, c.yuv) = 0 /\ c.w % SizeAlign(Channel, c.yuv) = 0

\* deliverWinConfigData: after an error the display is cleared.
DeliverWindows ==
    /\ geo.at = "deliver"
    /\ geo' = [geo EXCEPT !.at = "done",
           !.ret = IF geo.windows # {} /\ \A c \in geo.windows : WindowIsValid(c) THEN "shown"
                   ELSE "cleared"]

GeometryNext ==
    \/ PrepareLayer
    \/ \E path \in {"otf", "exynos", "client"} : AssignPath(path, NoImage)
    \/ geo.at = "assign" /\ \E mid \in ToScaler : AssignPath("m2m", mid)
    \/ ConfigureWindows
    \/ DeliverWindows

GeometrySpec == GeometryInit /\ [][GeometryNext]_geo

-----------------------------------------------------------------------------
(* What isSupported accepted is never refused by the check before the      *)
(* commit: no layer, protected or not, makes the display go blank.         *)
AcceptedIsShown == geo.ret # "cleared"

(* Windows read only what is in their buffers, and a layer's window only   *)
(* what its crop shows.  A protected RGB image, whose offset nobody has    *)
(* aligned before configureHandle, may show the pixels it is moved by.     *)
ReadsInsideTheBuffer ==
    geo.at = "done" => \A c \in geo.windows :
        /\ c.x + c.w <= c.full
        /\ (geo.path = "otf" /\ c.of = "layer") =>
               /\ c.x >= geo.layer.crop[1]
               /\ geo.layer.yuv \/ ~geo.layer.drm => c.x + c.w <= geo.layer.crop[2]
               /\ c.x + c.w < geo.layer.crop[2] + Channel.align

(* A composition target's window shows all that is composed into it, as    *)
(* far as it is on the display.                                            *)
TargetsAreShownWhole ==
    geo.at = "done" => \A c \in geo.windows : c.of # "layer" => \A s \in Composed(c.of) :
        Clipped(s)[1] < Clipped(s)[2] => c.dst[1] <= Clipped(s)[1] /\ Clipped(s)[2] <= c.dst[2]

WindowsAreLegal == AcceptedIsShown /\ ReadsInsideTheBuffer /\ TargetsAreShownWhole
=============================================================================

------------------------------ MODULE MCPlanes ------------------------------
(* What a commit shows, for TLC: each behaviour is one of the framebuffers, *)
(* of the partial update of the panel, of the memory-to-memory compositions *)
(* of the displays, or of a layer's way into a window.  They share no       *)
(* variable.                                                                *)
EXTENDS FramebufferCache, WindowUpdate, M2mComposition, WindowGeometry, TLC

CONSTANTS f1, f2, f3, b1, b2, b3, p, q, t, g

Interchangeable == Permutations(Fbs) \union Permutations(Bufs \ SecureBufs)

\* Layers that are shown as they are, cropped, moved, and enlarged.  Shrunk
\* layers are left out: QuotientTells (WindowUpdate) holds of these shapes.
MCShapes == {[frame |-> <<0, 2>>, crop |-> <<1, 3>>], [frame |-> <<1, 4>>, crop |-> <<0, 3>>],
             [frame |-> <<0, 4>>, crop |-> <<0, 2>>]}
\* All or nothing, a part, two parts, and a part beyond the crop.
MCDamages == {Unknown, Nothing, {<<1, 2>>}, {<<0, 1>>, <<2, 3>>}}

\* The primary display's frames are composed anew, or in a protected buffer;
\* the external display has one frame.
MCM2mSources == [p |-> {"a", "s"}, e |-> {"a"}]

\* A channel that shows RGB and YUV but no HDR, a scaler that also converts
\* HDR, and a G2D.
MCCap(down, up, max, min, align, rgb, hdr) ==
    [down |-> down, up |-> up, max |-> max, min |-> min, align |-> align,
     yuv |-> TRUE, rgb |-> rgb, hdr |-> hdr]
MCChannel == MCCap(2, 2, 12, 4, 2, TRUE, FALSE)
MCScaler == MCCap(4, 3, 16, 4, 1, FALSE, TRUE)
MCG2d == MCCap(4, 4, 12, 4, 2, TRUE, FALSE)

\* Crops and frames that are whole, odd, too small, too large, and off the display.
MCCrops == {<<0, 8>>, <<0, 5>>, <<1, 6>>, <<3, 8>>, <<3, 4>>, <<0, 12>>, <<1, 12>>, <<5, 9>>,
            <<6, 12>>, <<7, 12>>, <<0, 16>>}
MCFrames == {<<0, 8>>, <<0, 4>>, <<1, 6>>, <<5, 8>>, <<7, 8>>, <<0, 2>>, <<2, 5>>, <<-1, 4>>,
             <<6, 10>>, <<-2, 9>>, <<8, 9>>}
MCLayers == {l \in [yuv : BOOLEAN, drm : BOOLEAN, hdr : BOOLEAN, fraction : BOOLEAN,
                    stride : {8, 9, 12, 16}, crop : MCCrops, frame : MCFrames] :
                l.crop[2] <= l.stride}
MCCompanions == {NoSpan, <<0, 1>>, <<3, 5>>, <<-1, 3>>, <<3, 7>>}

VARIABLE focus
planesVars == <<focus, cacheVars, updateVars, m2mVars, geo>>

\* The window update stands still in its first initial state, and so does a layer.
Parked == win = [i \in Windows |-> [shape |-> CHOOSE s \in Shapes : s.frame[1] = 0 /\ s.frame[2] = 2,
                                    buffer |-> "a", damage |-> Unknown]] /\ composed = "windows"
NoLayerMoves == geo = FirstOf(CHOOSE l \in GeoLayers : TRUE, NoSpan)

PlanesInit ==
    /\ focus \in {"framebuffers", "update", "m2m", "geometry"}
    /\ focus = "update" \/ (focus # "update" /\ Parked)
    /\ focus = "geometry" \/ (focus # "geometry" /\ NoLayerMoves)
    /\ CacheInit /\ UpdateInit /\ M2mInit /\ GeometryInit

PlanesNext ==
    \/ focus = "framebuffers" /\ CacheNext /\ UNCHANGED <<focus, updateVars, m2mVars, geo>>
    \/ focus = "update" /\ UpdateNext /\ UNCHANGED <<focus, cacheVars, m2mVars, geo>>
    \/ focus = "m2m" /\ M2mNext /\ UNCHANGED <<focus, cacheVars, updateVars, geo>>
    \/ focus = "geometry" /\ GeometryNext /\ UNCHANGED <<focus, cacheVars, updateVars, m2mVars>>

\* What a partial update depends on: the damage of a frame that is presented
\* counts no more, nor does the last configuration when the geometry changed,
\* and of two buffers only whether they are the same.
UpdateView ==
    <<[i \in Windows |-> <<win[i].shape, IF updating THEN win[i].damage ELSE {}>>],
      changedShape, composed,
      IF changedShape THEN {} ELSE [i \in Windows |-> [lastConfig[i] EXCEPT !.fd = @ = win[i].buffer]],
      updating, updating /\ mSkipFrame, outdated, forgotten>>

\* Only the variables of the focus ever change.
PlanesView ==
    <<focus, CASE focus = "framebuffers" -> cacheVars [] focus = "update" -> UpdateView
               [] focus = "m2m" -> m2mVars [] OTHER -> geo>>

PlanesSpec == PlanesInit /\ [][PlanesNext]_planesVars
=============================================================================

----------------------------- MODULE MCServices -----------------------------
(* What is asked of the composer beside frames, for TLC: each behaviour is *)
(* one of the composer's clients and their layers, of the crtcs of a       *)
(* foldable device, of the fingerprint sensor's bright spot, of the planes *)
(* that two panels share, of the thread that chooses the composition of an *)
(* idle screen, of the binder service, or of the histogram's channels.      *)
(* They share no variable.                                                 *)
EXTENDS ComposerService, CrtcBorrowing, LocalHbm, PlaneHandover, DynamicRecomposition,
        HwcService, HistogramChannels, TLC

CONSTANTS u, v, w

Interchangeable == Permutations(Clients)

VARIABLE focus
panelVars == <<crtcVars, lhbmVars, handoverVars, drVars>>
servicesVars == <<focus, serviceVars, hwcVars, channelVars, panelVars>>

\* The first channel is for the main panel, the others are for the minor one.
Reservation == [c \in Channels |-> IF c = "c1" THEN "main" ELSE "minor"]

ServicesInit ==
    /\ focus \in {"clients", "crtcs", "lhbm", "handover", "recomposition", "binder",
                 "channels"}
    /\ ServiceInit /\ CrtcInit /\ LhbmInit /\ HandoverInit /\ DrInit /\ HwcInit
    /\ HistogramInit
    /\ focus # "lhbm" => cfg.active = Peak

ServicesNext ==
    \/ focus = "clients" /\ ServiceNext /\ UNCHANGED <<focus, hwcVars, channelVars, panelVars>>
    \/ focus = "binder" /\ HwcNext /\ UNCHANGED <<focus, serviceVars, channelVars, panelVars>>
    \/ focus = "channels" /\ HistogramNext /\ UNCHANGED <<focus, serviceVars, hwcVars, panelVars>>
    \/ /\ UNCHANGED <<focus, serviceVars, hwcVars, channelVars>>
       /\ \/ focus = "crtcs" /\ CrtcNext /\ UNCHANGED <<lhbmVars, handoverVars, drVars>>
          \/ focus = "lhbm" /\ LhbmNext /\ UNCHANGED <<crtcVars, handoverVars, drVars>>
          \/ focus = "handover" /\ HandoverNext /\ UNCHANGED <<crtcVars, lhbmVars, drVars>>
          \/ focus = "recomposition" /\ DrNext /\ UNCHANGED <<crtcVars, lhbmVars, handoverVars>>

\* Only the variables of the focus ever change.
FocusView ==
    <<focus, CASE focus = "clients" -> serviceVars [] focus = "binder" -> hwcVars
               [] focus = "channels" -> channelVars [] focus = "crtcs" -> crtcVars
               [] focus = "lhbm" -> lhbmVars [] focus = "handover" -> handoverVars
               [] focus = "recomposition" -> drVars>>

ServicesSpec == ServicesInit /\ [][ServicesNext]_servicesVars
=============================================================================

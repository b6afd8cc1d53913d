------------------------------ MODULE MCDisplay ------------------------------
(* The four views of the display in one instance: which displays are announced   *)
(* (DisplayOnline), when a frame is presented (FrameDelivery), what the GPU      *)
(* objects of a frame live through (DisplayFrames) and the layout of its render  *)
(* target (RtLayout).  No two of them share a variable, so a behaviour of all is *)
(* a behaviour of each, and it is enough to run one while the others rest in     *)
(* their initial states: view says which.                                        *)
EXTENDS DisplayOnline, FrameDelivery, DisplayFrames, RtLayout

VARIABLE view

displayVars == <<view, onlineVars, deliveryVars, frameVars, layoutVars>>

DisplayInit ==
    /\ view \in {"online", "delivery", "frames", "layout"}
    /\ OnlineInit /\ DeliveryInit /\ FramesInit /\ LayoutInit

InOnline(A)   == view = "online"   /\ A /\ UNCHANGED <<view, deliveryVars, frameVars, layoutVars>>
InDelivery(A) == view = "delivery" /\ A /\ UNCHANGED <<view, onlineVars, frameVars, layoutVars>>
InFrames(A)   == view = "frames"   /\ A /\ UNCHANGED <<view, onlineVars, deliveryVars, layoutVars>>
InLayout(A)   == view = "layout"   /\ A /\ UNCHANGED <<view, onlineVars, deliveryVars, frameVars>>

DisplayNext ==
    \/ InOnline(OnlineNext)
    \/ InDelivery(DeliveryNext)
    \/ InFrames(FramesNext)
    \/ InLayout(LayoutNext)

\* The fairness of OnlineSpec and of DeliverySpec.
DisplaySpec ==
    /\ DisplayInit /\ [][DisplayNext]_displayVars
    /\ WF_displayVars(InOnline(lagfx_timer_tick_vblank))
    /\ WF_displayVars(InDelivery(Tick))
    /\ WF_displayVars(InDelivery(lagfx_display_signal_frame_ready))
    /\ WF_displayVars(InDelivery(Time))
=============================================================================

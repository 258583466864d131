------------------------------- MODULE MCDevices -------------------------------
(***************************************************************************)
(* Instances for TLC of the drivers (ATA DMA transfers, the sector caches  *)
(* above the disks, the two USB host controllers, the USB keyboard and the *)
(* network cards) and of the two long-running programs of userspace: the   *)
(* service supervisor twinit and the compositor twland.  They share no     *)
(* variable; `focus' says which one a behaviour is about, and the others   *)
(* stay in an initial state.                                               *)
(***************************************************************************)
EXTENDS AtaDma, DiskCache, Uhci, Xhci, UsbKeyboard, Nic, Twinit, Twland

CONSTANTS web, echo,    \* services: web runs from boot, echo on demand
          b1            \* a buffer of a client

VARIABLE focus

(* Buffers with contiguous, split, descending and out-of-reach pages.      *)
MCDBufs == {[frames |-> <<2, 3, 6>>, off |-> 1], [frames |-> <<5, 9>>, off |-> 0],
            [frames |-> <<3, 4, 5>>, off |-> 1], [frames |-> <<1, 2, 3>>, off |-> 0],
            [frames |-> <<6, 4, 0>>, off |-> 1]}

(* First byte and length of requests, aligned to sectors or not.           *)
MCDevRanges == {<<0, 2>>, <<1, 2>>, <<3, 3>>, <<1, 5>>, <<4, 1>>}

(* What is plugged into the two ports of each controller.                  *)
MCUhPlugs == {<<"hid", k>> : k \in {"none", "hid", "other"}} \cup {<<"other", "hid">>}
MCXPlugs == {<<"none", "msc">>, <<"other", "msc">>}

MCRestartPolicy == (web :> "always") @@ (echo :> "on-failure")

MCBufSize == b1 :> <<2, 2>>
MCOutput == <<0, 0, 8, 8>>
MCLayerProps ==    \* a panel along the top, and a dialog over everything
    {[w |-> 0, h |-> 2, anchor |-> {"top", "left", "right"}, zone |-> 2, margin |-> NoMargin,
      kbd |-> "none", layer |-> 2],
     [w |-> 2, h |-> 2, anchor |-> {}, zone |-> -1, margin |-> NoMargin,
      kbd |-> "exclusive", layer |-> 3]}
MCPointerAt == {<<1, 1>>, <<3, 4>>, <<4, 2>>, <<2, 2>>}

(* Frames in and out together (bound): three of one kind can still wrap a  *)
(* ring or fill it while one or two of the other kind interfere.           *)
TrafficBound == Len(card'.size) + nlog'.queued <= 4

Parts == {"ata", "cache", "uhci", "xhci", "keyboard", "nic", "twinit", "twland"}

DevicesInit ==
    /\ focus \in Parts
    /\ DmaInit /\ (focus # "ata" => lba48)
    /\ BkInit /\ (focus # "cache" => bk.kind = "ata")
    /\ UhInit /\ (focus # "uhci" => uh.plug = <<"hid", "none">>)
    /\ XInit /\ (focus # "xhci" => xd.plug = <<"none", "msc">>)
    /\ KbInit
    /\ NicInit /\ (focus # "nic" => nd.kind = "rtl" /\ nd.irqOk)
    /\ TwinitInit
    /\ TwlandInit /\ (focus # "twland" => tl = CHOOSE w \in Starts : ~w.gone)

(* All of the parts but one stay as they are.                              *)
Only(part) ==
    /\ focus = part /\ focus' = focus
    /\ part # "ata" => UNCHANGED dmaVars
    /\ part # "cache" => UNCHANGED bkVars
    /\ part # "uhci" => UNCHANGED uhVars
    /\ part # "xhci" => UNCHANGED xhciVars
    /\ part # "keyboard" => UNCHANGED kbVars
    /\ part # "nic" => UNCHANGED nicVars
    /\ part # "twinit" => UNCHANGED twVars
    /\ part # "twland" => UNCHANGED tlVars

DevicesNext ==
    \/ Only("ata") /\ DmaNext
    \/ Only("cache") /\ BkNext
    \/ Only("uhci") /\ UhNext
    \/ Only("xhci") /\ XhciNext
    \/ Only("keyboard") /\ KbNext
    \/ Only("nic") /\ NicNext /\ TrafficBound
    \/ Only("twinit") /\ TwinitNext
    \/ Only("twland") /\ TwlandNext

DevicesSpec ==
    /\ DevicesInit
    /\ [][DevicesNext]_<<focus, dmaVars, bkVars, uhVars, xhciVars, kbVars, nicVars, twVars, tlVars>>
================================================================================

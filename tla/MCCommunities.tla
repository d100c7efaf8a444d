---------------------------- MODULE MCCommunities ----------------------------
(***************************************************************************)
(* Communities for TLC: two rooms the sidecar may create, one foreign      *)
(* community with two channels.                                            *)
(***************************************************************************)
EXTENDS Communities

MCOwned == {"home", "home2"}
MCForeign == {"guild"}
MCChannels == {"h", "h2", "g", "g2"}
MCChannelsOf ==
    [c \in {"home", "home2", "guild"} |->
        CASE c = "home" -> {"h"}
          [] c = "home2" -> {"h2"}
          [] c = "guild" -> {"g", "g2"}]
===============================================================================

------------------------------ MODULE SiteDir ------------------------------
(***************************************************************************)
(* What GetTar promises about the directory nginx serves, without tars,      *)
(* staging and files: it puts up whole releases only, of these only the one   *)
(* the mirror holds, and never one in the place of another: the old release   *)
(* is gone before the new one is there.                                      *)
(***************************************************************************)
CONSTANTS Releases, None

VARIABLES
    held,  \* the release the mirror holds
    site   \* the release that is up, all of it, or None

vars == <<held, site>>

Init == held = None /\ site = None

\* Another release is adopted, or a restart finds another one in the state file.
Hold == held' \in Releases \cup {None} /\ UNCHANGED site

\* The old files go, also when what comes in their place is the same release.
TakeDown == held # None /\ site' = None /\ UNCHANGED held

PutUp == held # None /\ site = None /\ site' = held /\ UNCHANGED held

Next == Hold \/ TakeDown \/ PutUp

Spec == Init /\ [][Next]_vars
=============================================================================

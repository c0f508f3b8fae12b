----------------------------- MODULE AtomicImage -----------------------------
(***************************************************************************)
(* What a tool that makes a file system image promises: there is no image,  *)
(* and then there is the whole one.  A partial or a damaged image is handed *)
(* over only when a write of it was lost without the tool being told.       *)
(***************************************************************************)
CONSTANT Nothing

VARIABLES want,      \* the contents the image should have
          image,     \* the image handed over, or Nothing
          lost,      \* a write of the image was lost unnoticed
          possible,  \* the tool can make this image at all
          sure       \* nothing but a mishap keeps it from making it

vars == <<want, image, possible>>

Init == image = Nothing

Publish ==
    /\ possible
    /\ image = Nothing
    /\ image' # Nothing
    /\ image' = want \/ lost'
    /\ UNCHANGED <<want, possible>>

Safety == Init /\ [][Publish]_vars

Delivery == sure ~> image # Nothing
=============================================================================

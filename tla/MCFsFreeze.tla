----------------------------- MODULE MCFsFreeze -----------------------------
(* Instances of FsFreeze for TLC. *)
EXTENDS FsFreeze

CONSTANTS f1, f2, f3

\* Two file systems and one that does not support freezing.
PlainMounts == <<f1, f2, f3>>
\* f1 is mounted a second time (a bind mount).
BindMounts == <<f1, f2, f1>>

SmallCommands == {"guest-ping", Status, Freeze, FreezeList, Thaw, FileOpen,
                  "guest-exec"}
=============================================================================

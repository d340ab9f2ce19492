------------------------- MODULE MCCountRotatingSink -------------------------
(* Instances of CountRotatingSink for TLC.                                 *)
EXTENDS CountRotatingSink

Params(counts, files, onOpen, stricts) ==
    [maxCount: counts, maxFiles: files, rotateOnOpen: onOpen, strict: stricts]

\* One number of backups, everything else free: what RetainedLog promises.
UniformConfigs == Params({1}, {3}, {TRUE}, {FALSE})
                  \cup Params({2}, {3}, {FALSE}, BOOLEAN)
                  \cup Params({0}, {3}, {FALSE}, {FALSE})

\* Every mixture, the number of backups included.
MixedConfigs == Params({0, 1, 2}, {0, 1, 2}, {TRUE}, {FALSE})
                \cup Params({2}, {0, 1, 2}, {FALSE}, {TRUE})

\* strict_count_on_open with a fixed limit, without rotate_on_open.
StrictConfigs == Params({2}, {2}, {FALSE}, {TRUE})
=============================================================================

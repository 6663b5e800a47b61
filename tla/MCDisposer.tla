----------------------------- MODULE MCDisposer -----------------------------
(* Instances of Disposer for TLC. *)
EXTENDS Disposer

CONSTANTS pipeKept, pipeOnce, append, overwrite, exec, misspelt

MCActs == {pipeKept, pipeOnce, append, overwrite, exec, misspelt}
MCKind == (pipeKept :> "PIPE") @@ (pipeOnce :> "PIPE") @@ (append :> "APPEND")
            @@ (overwrite :> "FILE") @@ (exec :> "EXEC") @@ (misspelt :> "PIPE")
MCKeepOpen == {pipeKept, append, overwrite}
MCNotFound == {misspelt}
=============================================================================

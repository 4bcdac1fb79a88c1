-------------------------- MODULE MCProtocolRegistry --------------------------
(* A request or a job beside two of the administrators' operations at a time,  *)
(* and the archive and deletion of a protocol beside each other operation.      *)
EXTENDS ProtocolRegistry, TLC

CONSTANTS r1, j1, j2, saver, verifier, activator, activator2, archiver, deleter, binder, binder2, binder3,
          reloader

MCRole == saver :> "save" @@ verifier :> "verify" @@ activator :> "activate"
          @@ activator2 :> "activate" @@ archiver :> "archive" @@ deleter :> "delete"
          @@ binder :> "bind" @@ binder2 :> "bind" @@ binder3 :> "bind"
          @@ reloader :> "reload"
MCAdmins == DOMAIN MCRole
MCCasts == {{r1, archiver, deleter, activator},
            {r1, archiver, deleter, verifier, saver},
            {j1, archiver, deleter, binder},
            {j1, j2, activator},
            {j1, archiver, deleter, reloader, activator},
            {archiver, binder, binder2, binder3},
            {activator, activator2, archiver, reloader}}
===============================================================================

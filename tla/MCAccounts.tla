----------------------------- MODULE MCAccounts -----------------------------
(* Two slots. Both serve requests that write the metadata of ann, so that they    *)
(* overlap. Users are created in s1, ann again after she was removed, and the one  *)
(* with the name of ADMIN_USERNAME is given roles there; s2 deletes users, gives   *)
(* ann roles, and starts an instance.                                             *)
EXTENDS Accounts, TLC

CONSTANTS root, ann, s1, s2

MetadataOps == {"register", "validate", "generate", "change", "complete", "profile"}

MCPresent == (root :> NoUser) @@ (ann :> "admin")
MCOps ==
    (s1 :> (((MetadataOps \cup {"login", "create"}) \X {ann}) \cup ({"create", "role"} \X {root})))
      @@ (s2 :> (({"register", "generate", "complete", "delete", "role"} \X {ann})
                   \cup ({"delete", "bootstrap"} \X {root})))
=============================================================================

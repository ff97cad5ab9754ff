------------------------------ MODULE MCRelease ------------------------------
(* Six files, among them one that image layers list under another name. *)
EXTENDS Release

MCUnder == [d \in Dirs |-> {"map", "key"}]
MCUndotted == [f \in Files |-> IF f = ".env" THEN "env" ELSE f]
MCForbidden == [r \in NameRules |->
  CASE r = "REL-001" -> {"map"} [] r = "REL-002" -> {"key", ".env"} [] OTHER -> {"map"}]

Rules(allowed, required, denied, list, version) ==
  [allowed |-> [r \in NameRules |-> allowed], required |-> required,
   denied |-> denied, list |-> list, version |-> version]
MCManifests == {Rules({"map", "js"}, {"env"}, {}, TRUE, TRUE),
                Rules({"key"}, {}, {"js"}, FALSE, TRUE),
                Rules(Files, {}, {}, TRUE, FALSE)}
MCBaselines == {[name |-> ".whl", files |-> {"js", "key"}],
                [name |-> ".tar.gz", files |-> {}]}
MCAssetKind == [a \in Assets |-> CASE a = "a.whl" -> "wheel" [] a = "b.tgz" -> "npm"
                                   [] OTHER -> "other"]
=============================================================================

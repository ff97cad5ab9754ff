---------------------------- MODULE MCGovernanceGate ----------------------------
(* A Python and a TypeScript file with one check of each kind, for TLC. *)
EXTENDS GovernanceGate

CONSTANT SiteNames

Place(c) == CASE c \in {"syntax", "bandit"} -> "py"
              [] c \in {"xss_check_ts", "auth_bypass_ts", "dead_code"} -> "ts"
              [] c = "license" -> "repo"
MCSites == {<<c, Place(c)>> : c \in SiteNames}

MCGateRule == [c \in Checks |-> CASE c = "auth_bypass_ts" -> "SEC-002"
                                  [] c = "xss_check_ts" -> "SEC-013"
                                  [] OTHER -> c]
MCBaselineRule == [c \in Checks |-> c]

Forever == LastDay + 1
Plain == [exempt |-> {}, expected |-> {}, waivers |-> {}, mode |-> "block_new",
          deadline |-> Forever]
MCSettings == {
  [Plain EXCEPT !.deadline = 1],
  [Plain EXCEPT !.expected = {"license"}, !.mode = "ratchet_down"],
  [Plain EXCEPT !.exempt = {s \in MCSites : s[1] = "license"},
                !.waivers = {[rule |-> "bandit", place |-> "py", until |-> 0]}]}
MCStarts == {{s \in MCSites : s[1] \in {"bandit", "license", "dead_code"}}}
=============================================================================

------------------------------ MODULE Signing ------------------------------
(***************************************************************************)
(* The SSH signing a clone is left with (internal/repo/signing.go), and    *)
(* what canga git clone says of it (cmd/host/canga/clone.go).  It is a     *)
(* sequence of git commands, and any of them may be the one that fails.    *)
(*                                                                         *)
(* A machine is a record: the values that are in the environment, those in *)
(* the global configuration, and whether git configuration outside the     *)
(* clone turns commit.gpgsign on.                                          *)
(***************************************************************************)
EXTENDS Naturals, SequencesExt

(* gpg.ssh.allowedSignersFile and user.signingkey.                          *)
Values == {"signers", "key"}

Machines == [env : SUBSET Values, global : SUBSET Values, signs : BOOLEAN]

Ask(what) == <<"ask", what>>

Write(setting) == <<"set", setting>>

(* Slip: the flag is written before what it needs.                          *)
SettingsFlagFirst == <<"sign", "format", "key", "tags">>

(* gpg.format, user.signingkey, commit.gpgsign and tag.gpgsign.             *)
Settings == <<"format", "key", "sign", "tags">>

Resolves(machine, value) == value \in machine.env \cup machine.global

(* resolveSetting: the environment needs no git command.                    *)
Asked(machine, value) == IF value \in machine.env THEN <<>> ELSE <<Ask(value)>>

(* What StampSigning asks and writes if nothing fails.                      *)
Commands(machine) ==
  Asked(machine, "signers")
    \o (IF Resolves(machine, "signers") THEN <<Write("signers")>> ELSE <<>>)
    \o Asked(machine, "key")
    \o (IF Resolves(machine, "key")
        THEN [i \in DOMAIN Settings |-> Write(Settings[i])] ELSE <<Ask("sign")>>)

(* git signs commits by the clone's configuration or by the one outside.    *)
SignsCommits(machine, local) == "sign" \in local \/ machine.signs

(* StampSigning: what is in the clone's configuration, and what it reports, *)
(* after the first n commands, of which the next failed.                    *)
StampSigning(machine, n) ==
  LET commands == Commands(machine)
      local    == {s \in Range(Settings) \cup {"signers"} :
                     \E i \in 1 .. n : commands[i] = Write(s)}
      failed   == n < Len(commands)
      stamped  == ~ failed /\ Resolves(machine, "key")
  IN  [local |-> local, failed |-> failed, key |-> stamped,
       inherited |-> ~ failed /\ ~ stamped /\ SignsCommits(machine, local)]

(* reportSigning.                                                           *)
Told(stamp) ==
  IF stamp.failed THEN "warning"
  ELSE IF stamp.key THEN "on"
  ELSE IF stamp.inherited THEN "inherited" ELSE "off"
=============================================================================

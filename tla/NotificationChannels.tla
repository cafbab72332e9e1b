------------------------- MODULE NotificationChannels -------------------------
(***************************************************************************)
(* The configuration of the external notification channels and what is     *)
(* computed from it: whom a notice is for, whether a channel can be built, *)
(* and the life of a secret, from what the user types over what is stored  *)
(* encrypted to what a channel is built with.                              *)
(*                                                                         *)
(* An entry is a record: type, name, enabled, types and levels (empty sets *)
(* filter nothing), mode, rate (0 is no limit), retries, filled (every     *)
(* required field that is no secret has a value) and secret.               *)
(***************************************************************************)
EXTENDS Integers, FiniteSets, Sequences

\* Types with a secret field, and those that cannot be built without it.
Keyed == {"webhook", "telegram", "serverchan", "email"}
KeyRequired == {"telegram", "serverchan"}

\* A secret in one of its forms; of is what the user once typed.
Blank == [form |-> "blank", of |-> "none"]
Plain(p) == [form |-> "plain", of |-> p]
Cipher(p) == [form |-> "cipher", of |-> p]
Secret == {Blank} \cup [form : {"plain", "stars", "cipher"}, of : STRING]

ChannelEntry ==
  [type : {"webhook", "telegram", "bark", "serverchan", "email", "desktop"}, name : STRING,
   enabled : BOOLEAN, types : SUBSET STRING, levels : SUBSET STRING, mode : STRING,
   rate : Int, retries : Int, filled : BOOLEAN, secret : Secret]

ChannelsConfig == [enabled : BOOLEAN, channels : Seq(ChannelEntry)]

-------------------------------------------------------------------------------
(* Whom a notice is for *)

LevelMatchesMode(mode, level) ==
  CASE mode = "success" -> level \in {"success", "info"}
    [] mode \in {"failure", "warning+"} -> level \in {"warning", "error"}
    [] OTHER -> TRUE

\* An entry without levels is not filtered by its mode here, and a desktop entry
\* never is; Send looks at the mode again.
ShouldSendToChannel(e, kind, level) ==
  /\ e.types # {} => kind \in e.types
  /\ e.levels # {} =>
       /\ level \in e.levels
       /\ e.type # "desktop" => LevelMatchesMode(e.mode, level)

Digest(e) == e.type = "webhook" /\ e.mode = "digest"

\* Validate of the six channel types: all required fields have a value.
Validate(e) == e.filled /\ (e.type \in KeyRequired => e.secret # Blank)

\* BuildChannel: nil, or a channel; a desktop channel is built from anything.
Builds(e) == e.type = "desktop" \/ Validate(e)

\* Sends of a webhook after the first; the other channels never try again.
Retries(e) ==
  IF e.type # "webhook" \/ e.retries < 0 THEN 0 ELSE IF e.retries > 5 THEN 5 ELSE e.retries

-------------------------------------------------------------------------------
(* Rate limit: a sliding window over the times of the sends it allowed *)

Recent(sent, now, window) == SelectSeq(sent, LAMBDA t : t > now - window)

Allows(sent, now, window, max) == Len(Recent(sent, now, window)) < max

-------------------------------------------------------------------------------
(* Secrets *)

\* Mutant: a cipher is encrypted again.
Encrypted_Again(s) == IF s.form = "blank" THEN s ELSE Cipher(IF s.form = "cipher" THEN "twice" ELSE s.of)

\* What EncryptEntrySecrets stores: what is neither blank nor a cipher is encrypted.
Encrypted(s) == IF s.form \in {"plain", "stars"} THEN Cipher(s.of) ELSE s

\* What DecryptEntrySecrets yields; what the key cannot read becomes blank.
Decrypted(s, readable) ==
  IF s.form # "cipher" THEN s
  ELSE IF s.of \in readable THEN Plain(s.of) ELSE Blank

EncryptEntrySecrets(e) ==
  IF e.type \in Keyed THEN [e EXCEPT !.secret = Encrypted(@)] ELSE e

DecryptEntrySecrets(e, readable) ==
  IF e.type \in Keyed THEN [e EXCEPT !.secret = Decrypted(@, readable)] ELSE e

\* What the settings page is shown, and sends back when nothing was typed.
MaskEntrySecretsForAPI(e) == IF e.type \in Keyed THEN [e EXCEPT !.secret = Blank] ELSE e

\* shouldPreserveSecret: blank, or the asterisks of a redacted one.
NotTyped(s) == s.form \in {"blank", "stars"}

\* MergeEntrySecretsPreserveEmpty: a secret that was not typed keeps its value.
MergeEntrySecrets(next, prev) ==
  IF next.type = prev.type /\ next.type \in Keyed /\ NotTyped(next.secret)
  THEN [next EXCEPT !.secret = prev.secret] ELSE next

\* prevByName: of the stored entries with e's name and type the last one counts.
PreviousOf(e, channels) ==
  LET same == {i \in DOMAIN channels : channels[i].name = e.name /\ channels[i].type = e.type}
  IN IF same = {} THEN e
     ELSE channels[CHOOSE i \in same : \A j \in same : j <= i]

\* The value that a save of c stores over the value prev.
SavedConfig(c, prev) ==
  [c EXCEPT !.channels =
     [i \in DOMAIN c.channels |->
        EncryptEntrySecrets(MergeEntrySecrets(c.channels[i], PreviousOf(c.channels[i], prev.channels)))]]

\* MaskChannelsConfigJSON: the stored value as the settings page is shown it.
ShownConfig(c) ==
  [c EXCEPT !.channels = [i \in DOMAIN c.channels |-> MaskEntrySecretsForAPI(c.channels[i])]]

\* The value as the hub loads it.
LoadedConfig(c, readable) ==
  [c EXCEPT !.channels =
     [i \in DOMAIN c.channels |-> DecryptEntrySecrets(c.channels[i], readable)]]

DefaultChannelsConfig == [enabled |-> FALSE, channels |-> <<>>]
===============================================================================

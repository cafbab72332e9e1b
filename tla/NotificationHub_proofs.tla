------------------------ MODULE NotificationHub_proofs ------------------------
(***************************************************************************)
(* Theorems about the hub: a channel acknowledges a notice at most once,   *)
(* and saving the settings page as it was shown keeps every secret; both   *)
(* for channels with names of their own.                                   *)
(***************************************************************************)
EXTENDS NotificationHub, SequenceTheorems, TLAPS

\* Channels are told apart by their names (system.go:118, hub.go:154).
NamesDiffer(channels) ==
  \A i, j \in DOMAIN channels : channels[i].name = channels[j].name => i = j

OwnNames == \A c \in Configs : NamesDiffer(c.channels)

-------------------------------------------------------------------------------
(* Configurations *)

Proper(c) ==
  /\ c \in ChannelsConfig
  /\ NamesDiffer(c.channels)
  /\ \A i \in DOMAIN c.channels : c.channels[i].name \in Names

LEMMA DefaultIsProper == Proper(DefaultChannelsConfig)
<1>1. <<>> \in Seq(ChannelEntry) /\ DOMAIN <<>> = {} OBVIOUS
<1> QED BY <1>1 DEF Proper, DefaultChannelsConfig, ChannelsConfig, NamesDiffer

\* What changes the secrets of a configuration leaves its channels in place.
LEMMA RekeyedIsProper ==
  ASSUME NEW c, Proper(c), NEW new \in [DOMAIN c.channels -> ChannelEntry],
         \A i \in DOMAIN new : new[i].name = c.channels[i].name
  PROVE  Proper([c EXCEPT !.channels = new])
<1>1. c.channels \in Seq(ChannelEntry) BY DEF Proper, ChannelsConfig
<1>2. PICK n \in Nat : DOMAIN c.channels = 1..n BY <1>1, LenProperties
<1>3. new \in Seq(ChannelEntry) BY <1>2, SeqDef
<1>4. [c EXCEPT !.channels = new] \in ChannelsConfig BY <1>3 DEF Proper, ChannelsConfig
<1>5. [c EXCEPT !.channels = new].channels = new BY DEF Proper, ChannelsConfig
<1>6. NamesDiffer(new) BY DEF Proper, NamesDiffer
<1> QED BY <1>4, <1>5, <1>6 DEF Proper

LEMMA SecretForms ==
  /\ Blank \in Secret
  /\ \A s \in Secret : Encrypted(s) \in Secret
  /\ \A s \in Secret : \A readable : Decrypted(s, readable) \in Secret
<1>1. Blank \in Secret BY DEF Secret
<1>2. ASSUME NEW s \in Secret PROVE Encrypted(s) \in Secret
  BY DEF Cipher, Secret, Encrypted, Blank
<1>3. ASSUME NEW s \in Secret, NEW readable PROVE Decrypted(s, readable) \in Secret
  <2>1. s.form = "cipher" => Plain(s.of) \in Secret BY DEF Plain, Secret, Blank
  <2> QED BY <1>1, <2>1 DEF Decrypted
<1> QED BY <1>1, <1>2, <1>3

\* With names that differ there is one previous entry at most, and it is an entry.
LEMMA PreviousIsEntry ==
  ASSUME NEW e \in ChannelEntry, NEW c, Proper(c)
  PROVE  PreviousOf(e, c.channels) \in ChannelEntry
<1>. DEFINE same == {i \in DOMAIN c.channels :
                       c.channels[i].name = e.name /\ c.channels[i].type = e.type}
<1>1. c.channels \in Seq(ChannelEntry) BY DEF Proper, ChannelsConfig
<1>2. \A i \in DOMAIN c.channels : c.channels[i] \in ChannelEntry
  BY <1>1, LenProperties, ElementOfSeq
<1>3. CASE same = {} BY <1>3 DEF PreviousOf
<1>4. CASE same # {}
  <2>1. PICK i \in same : TRUE BY <1>4
  <2>2. \A j \in same : j = i BY DEF Proper, NamesDiffer
  <2>3. i \in Nat BY <1>1, LenProperties
  <2>4. \A j \in same : j <= i BY <2>2, <2>3
  <2>5. (CHOOSE k \in same : \A j \in same : j <= k) \in same BY <2>4
  <2> QED BY <1>2, <1>4, <2>5 DEF PreviousOf
<1> QED BY <1>3, <1>4

LEMMA SavedIsProper ==
  ASSUME NEW c, Proper(c), NEW prev, Proper(prev)
  PROVE  Proper(SavedConfig(c, prev))
<1>. DEFINE merged(i) == MergeEntrySecrets(c.channels[i], PreviousOf(c.channels[i], prev.channels))
            new == [i \in DOMAIN c.channels |-> EncryptEntrySecrets(merged(i))]
<1>1. ASSUME NEW i \in DOMAIN c.channels
      PROVE  new[i] \in ChannelEntry /\ new[i].name = c.channels[i].name
  <2>1. c.channels[i] \in ChannelEntry
    BY LenProperties, ElementOfSeq DEF Proper, ChannelsConfig
  <2>2. PreviousOf(c.channels[i], prev.channels).secret \in Secret
    BY <2>1, PreviousIsEntry DEF ChannelEntry
  <2>3. merged(i) \in ChannelEntry /\ merged(i).name = c.channels[i].name
    BY <2>1, <2>2 DEF MergeEntrySecrets, ChannelEntry
  <2> HIDE DEF merged
  <2>4. Encrypted(merged(i).secret) \in Secret BY <2>3, SecretForms DEF ChannelEntry
  <2>5. EncryptEntrySecrets(merged(i)) \in ChannelEntry
        /\ EncryptEntrySecrets(merged(i)).name = merged(i).name
    BY <2>3, <2>4 DEF EncryptEntrySecrets, ChannelEntry
  <2> QED BY <2>3, <2>5
<1>2. SavedConfig(c, prev) = [c EXCEPT !.channels = new] BY DEF SavedConfig
<1> QED
  <2> HIDE DEF new
  <2>1. DOMAIN new = DOMAIN c.channels BY DEF new
  <2>2. new \in [DOMAIN c.channels -> ChannelEntry] BY <1>1, <2>1 DEF new
  <2> QED BY <1>1, <1>2, <2>1, <2>2, RekeyedIsProper

LEMMA LoadedIsProper ==
  ASSUME NEW c, Proper(c), NEW readable
  PROVE  Proper(LoadedConfig(c, readable))
<1>. DEFINE new == [i \in DOMAIN c.channels |-> DecryptEntrySecrets(c.channels[i], readable)]
<1>1. ASSUME NEW i \in DOMAIN c.channels
      PROVE  new[i] \in ChannelEntry /\ new[i].name = c.channels[i].name
  <2>1. c.channels[i] \in ChannelEntry
    BY LenProperties, ElementOfSeq DEF Proper, ChannelsConfig
  <2>2. Decrypted(c.channels[i].secret, readable) \in Secret
    BY <2>1, SecretForms DEF ChannelEntry
  <2> QED BY <2>1, <2>2 DEF DecryptEntrySecrets, ChannelEntry
<1>2. LoadedConfig(c, readable) = [c EXCEPT !.channels = new] BY DEF LoadedConfig
<1> QED
  <2> HIDE DEF new
  <2>1. DOMAIN new = DOMAIN c.channels BY DEF new
  <2>2. new \in [DOMAIN c.channels -> ChannelEntry] BY <1>1, <2>1 DEF new
  <2> QED BY <1>1, <1>2, <2>1, <2>2, RekeyedIsProper

LEMMA ConfigsAreProper ==
  ASSUME OwnNames, NEW c \in Configs
  PROVE  Proper(c)
BY HubAssumption DEF OwnNames, Proper, Names

-------------------------------------------------------------------------------
(* Saving what is shown *)

\* What is stored is not encrypted again.
LEMMA StoredOnce ==
  ASSUME NEW e \in ChannelEntry
  PROVE  EncryptEntrySecrets(EncryptEntrySecrets(e)) = EncryptEntrySecrets(e)
<1>1. Encrypted(Encrypted(e.secret)) = Encrypted(e.secret)
  BY DEF Encrypted, Cipher, ChannelEntry, Secret, Blank
<1>2. CASE e.type \in Keyed
  <2>1. EncryptEntrySecrets(e) = [e EXCEPT !.secret = Encrypted(e.secret)]
    BY <1>2 DEF EncryptEntrySecrets
  <2>2. /\ [e EXCEPT !.secret = Encrypted(e.secret)].type = e.type
        /\ [e EXCEPT !.secret = Encrypted(e.secret)].secret = Encrypted(e.secret)
    BY DEF ChannelEntry
  <2> QED BY <1>1, <1>2, <2>1, <2>2 DEF EncryptEntrySecrets, ChannelEntry
<1>3. CASE e.type \notin Keyed BY <1>3 DEF EncryptEntrySecrets
<1> QED BY <1>2, <1>3

\* An entry that was masked and not typed on gets its secret back.
LEMMA UnmaskedAgain ==
  ASSUME NEW e \in ChannelEntry
  PROVE  MergeEntrySecrets(MaskEntrySecretsForAPI(e), e) = e
<1>1. CASE e.type \in Keyed
  <2>1. MaskEntrySecretsForAPI(e) = [e EXCEPT !.secret = Blank]
    BY <1>1 DEF MaskEntrySecretsForAPI
  <2>2. [e EXCEPT !.secret = Blank].type = e.type /\ NotTyped([e EXCEPT !.secret = Blank].secret)
    BY DEF ChannelEntry, NotTyped, Blank
  <2>3. [[e EXCEPT !.secret = Blank] EXCEPT !.secret = e.secret] = e BY DEF ChannelEntry
  <2> QED BY <1>1, <2>1, <2>2, <2>3 DEF MergeEntrySecrets
<1>2. CASE e.type \notin Keyed BY <1>2 DEF MaskEntrySecretsForAPI, MergeEntrySecrets
<1> QED BY <1>1, <1>2

LEMMA SavedAsShown ==
  ASSUME NEW c, Proper(c), NEW prev, Proper(prev), NEW saved, saved = SavedConfig(c, prev)
  PROVE  SavedConfig(ShownConfig(saved), saved) = saved
<1>. DEFINE old == saved.channels
            shown == [i \in DOMAIN old |-> MaskEntrySecretsForAPI(old[i])]
            again == [i \in DOMAIN shown |->
                        EncryptEntrySecrets(MergeEntrySecrets(shown[i], PreviousOf(shown[i], old)))]
<1>p. Proper(saved) BY SavedIsProper
<1>1. old \in Seq(ChannelEntry) BY <1>p DEF Proper, ChannelsConfig
<1>2. ASSUME NEW i \in DOMAIN old PROVE again[i] = old[i]
  <2>1. old[i] \in ChannelEntry BY <1>1, LenProperties, ElementOfSeq
  <2>2. shown[i].name = old[i].name /\ shown[i].type = old[i].type
    BY <2>1 DEF MaskEntrySecretsForAPI, ChannelEntry
  <2>3. PreviousOf(shown[i], old) = old[i]
    <3>. DEFINE same == {j \in DOMAIN old : old[j].name = shown[i].name /\ old[j].type = shown[i].type}
    <3>1. same = {i} BY <1>p, <2>2 DEF Proper, NamesDiffer
    <3>2. i \in Nat BY <1>1, LenProperties
    <3>3. (CHOOSE k \in same : \A j \in same : j <= k) = i BY <3>1, <3>2
    <3> HIDE DEF old, shown
    <3>4. same # {} BY <3>1
    <3> QED BY <3>3, <3>4 DEF PreviousOf
  <2>4. MergeEntrySecrets(shown[i], old[i]) = old[i] BY <2>1, UnmaskedAgain
  <2>5. EncryptEntrySecrets(old[i]) = old[i]
    <3>. DEFINE merged == MergeEntrySecrets(c.channels[i], PreviousOf(c.channels[i], prev.channels))
    <3>1. i \in DOMAIN c.channels /\ old[i] = EncryptEntrySecrets(merged)
      BY DEF SavedConfig, Proper, ChannelsConfig
    <3>2. c.channels[i] \in ChannelEntry
      BY <3>1, LenProperties, ElementOfSeq DEF Proper, ChannelsConfig
    <3>3. PreviousOf(c.channels[i], prev.channels).secret \in Secret
      BY <3>2, PreviousIsEntry DEF ChannelEntry
    <3>4. merged \in ChannelEntry BY <3>2, <3>3 DEF MergeEntrySecrets, ChannelEntry
    <3> HIDE DEF merged, old
    <3> QED BY <3>1, <3>4, StoredOnce
  <2>6. again[i] = EncryptEntrySecrets(MergeEntrySecrets(shown[i], PreviousOf(shown[i], old)))
    OBVIOUS
  <2> HIDE DEF again, shown, old
  <2> QED BY <2>3, <2>4, <2>5, <2>6
<1>3. ShownConfig(saved) = [saved EXCEPT !.channels = shown] BY DEF ShownConfig
<1>4. [saved EXCEPT !.channels = shown].channels = shown BY <1>p DEF Proper, ChannelsConfig
<1>5. SavedConfig(ShownConfig(saved), saved)
        = [[saved EXCEPT !.channels = shown] EXCEPT !.channels = again]
  BY <1>3, <1>4 DEF SavedConfig
<1>6. again = old
  <2>1. DOMAIN again = DOMAIN old OBVIOUS
  <2>2. old = [i \in DOMAIN old |-> old[i]] BY <1>1, LenProperties
  <2>3. again = [i \in DOMAIN again |-> again[i]] OBVIOUS
  <2> HIDE DEF again, old
  <2> QED BY <1>2, <2>1, <2>2, <2>3
<1>7. [[saved EXCEPT !.channels = shown] EXCEPT !.channels = saved.channels] = saved
  BY <1>p DEF Proper, ChannelsConfig
<1> QED BY <1>5, <1>6, <1>7

-------------------------------------------------------------------------------
(* What the hub keeps of the configurations *)

ConfigsInv ==
  /\ Proper(stored) /\ Proper(config)
  /\ draft \in [Reloads -> ChannelsConfig]
  /\ \A r \in Reloads : Proper(draft[r])

LEMMA ConfigsInit == Init => ConfigsInv
BY DefaultIsProper DEF Init, ConfigsInv, Proper

LEMMA ConfigsStep ==
  ASSUME OwnNames, ConfigsInv, [Next]_vars
  PROVE  ConfigsInv'
<1>. USE DEF ConfigsInv
<1>d. ASSUME NEW r \in Reloads, NEW c, Proper(c), draft' = [draft EXCEPT ![r] = c]
      PROVE  draft' \in [Reloads -> ChannelsConfig] /\ \A x \in Reloads : Proper(draft'[x])
  <2>1. c \in ChannelsConfig BY <1>d DEF Proper
  <2>2. draft' \in [Reloads -> ChannelsConfig] BY <1>d, <2>1
  <2>3. ASSUME NEW x \in Reloads PROVE draft'[x] = draft[x] \/ draft'[x] = c
    BY <1>d
  <2> QED BY <1>d, <2>2, <2>3
<1>1. ASSUME NEW r \in Reloads, NEW c \in Configs, DraftSettings(r, c) PROVE ConfigsInv'
  <2>1. Proper(SavedConfig(c, stored)) BY ConfigsAreProper, SavedIsProper
  <2> QED BY <1>1, <1>d, <2>1 DEF DraftSettings, Proper
<1>2. ASSUME NEW r \in Reloads, CommitSettings(r) PROVE ConfigsInv'
  BY <1>2 DEF CommitSettings, Proper
<1>3. ASSUME NEW r \in Reloads, NEW ok \in BOOLEAN, LoadConfig(r, ok) PROVE ConfigsInv'
  <2>1. Proper(LoadedConfig(stored, Readable)) BY LoadedIsProper
  <2> QED BY <1>3, <1>d, <2>1, DefaultIsProper DEF LoadConfig, Proper
<1>4. ASSUME NEW r \in Reloads, Fill(r) PROVE ConfigsInv'
  BY <1>4 DEF Fill, Proper
<1>5. ASSUME UNCHANGED <<stored, config, draft>> PROVE ConfigsInv'
  BY <1>5 DEF Proper
<1>. USE DEF mapVars, lifeVars, flowVars
<1>6. CASE \E r \in Reloads : BeginReload(r) \/ Waited(r) \/ LockToFill(r)
  BY <1>5, <1>6 DEF BeginReload, Waited, LockToFill
<1>7. CASE \E n \in Notices : DispatchBegin(n) \/ DispatchTo(n) \/ DispatchRace(n)
  BY <1>5, <1>7 DEF DispatchBegin, DispatchTo, DispatchRace
<1>8. CASE \E s \in sends : \E result \in Results(s) : Attempt(s, result)
  BY <1>5, <1>8 DEF Attempt
<1>9. CASE \E l \in loops : Looping(l)
  BY <1>5, <1>9 DEF Looping, LoopCollects, LoopTicks, LoopStops
<1>10. CASE Closing \/ Tick
  BY <1>5, <1>10 DEF Closing, BeginClose, CloseDigests, CloseSends, Tick
<1>11. CASE UNCHANGED vars BY <1>5, <1>11 DEF vars
<1> QED
  BY <1>1, <1>2, <1>3, <1>4, <1>6, <1>7, <1>8, <1>9, <1>10, <1>11 DEF Next, Reloading

\* Whatever the channels, the saves and the key: a save of the settings page as it was
\* shown leaves the hub the configuration it had (handleUpdateSystemSettings).
THEOREM RedactedSaveIsSafe ==
  ASSUME OwnNames
  PROVE  Spec => []RedactedSaveKeepsSecrets
<1>1. Init => ConfigsInv BY ConfigsInit
<1>2. ConfigsInv /\ [Next]_vars => ConfigsInv' BY ConfigsStep
<1>3. ConfigsInv => RedactedSaveKeepsSecrets
  BY ConfigsAreProper, SavedAsShown DEF ConfigsInv, RedactedSaveKeepsSecrets
<1> QED BY <1>1, <1>2, <1>3, PTL DEF Spec

-------------------------------------------------------------------------------
(* The digest channels: each was made by a reload that is over, of an entry it loaded *)

Made(r, name) == r \in Reloads /\ rpc[r] = "done" /\ name \in DigestNames(draft[r])

ReloadSteps == {"idle", "draft", "saved", "wait", "load", "fill", "filling", "done"}

DigestInv ==
  /\ rpc \in [Reloads -> ReloadSteps]
  /\ \A name \in DOMAIN digest : Made(digest[name], name)
  /\ loops \subseteq [made : Reloads, name : Names, ctx : Reloads]
  /\ \A l \in loops : Made(l.made, l.name)

LEMMA EnabledEntries ==
  ASSUME NEW d, Proper(d), NEW e \in Enabled(d)
  PROVE  e \in ChannelEntry /\ e.name \in Names
<1>1. PICK i \in DOMAIN d.channels : e = d.channels[i] BY DEF Enabled
<1> QED BY <1>1, LenProperties, ElementOfSeq DEF Proper, ChannelsConfig

LEMMA DigestEntry ==
  ASSUME NEW d, Proper(d), NEW name \in DigestNames(d)
  PROVE  /\ name \in Names
         /\ \E e \in Enabled(d) : e.name = name /\ Digest(e)
BY EnabledEntries DEF DigestNames

LEMMA MadeStays ==
  ASSUME NEW r, NEW name, Made(r, name),
         rpc'[r] = rpc[r], draft'[r] = draft[r]
  PROVE  Made(r, name)'
BY DEF Made, DigestNames, Enabled

LEMMA DigestInit == Init => DigestInv
<1>. SUFFICES ASSUME Init PROVE DigestInv OBVIOUS
<1>1. digest = [x \in {} |-> <<>>] /\ loops = {} BY DEF Init, NoMap
<1>2. DOMAIN digest = {} BY <1>1
<1>3. rpc = [r \in Reloads |-> "idle"] BY DEF Init
<1> QED BY <1>1, <1>2, <1>3 DEF DigestInv, ReloadSteps

LEMMA DigestStep ==
  ASSUME ConfigsInv, DigestInv, [Next]_vars
  PROVE  DigestInv'
<1>. USE DEF mapVars, lifeVars, flowVars
<1>. DEFINE Stays == \A r \in Reloads : rpc[r] = "done" => rpc'[r] = "done" /\ draft'[r] = draft[r]
            Typed == rpc' \in [Reloads -> ReloadSteps]
<1>k. ASSUME Stays, NEW r, NEW name, Made(r, name) PROVE Made(r, name)'
  BY <1>k, MadeStays DEF Made
<1>1. ASSUME Stays, Typed, digest' = digest \/ digest' = NoMap, loops' \subseteq loops
      PROVE  DigestInv'
  <2>1. digest' = NoMap => DOMAIN digest' = {} BY DEF NoMap
  <2> QED BY <1>1, <1>k, <2>1 DEF DigestInv
<1>2. ASSUME NEW r \in Reloads, NEW step \in ReloadSteps,
             rpc[r] # "done", rpc' = [rpc EXCEPT ![r] = step],
             \A x \in Reloads : x # r => draft'[x] = draft[x]
      PROVE  Stays /\ Typed
  BY <1>2 DEF DigestInv
<1>3. ASSUME NEW r \in Reloads, NEW c \in Configs, DraftSettings(r, c) PROVE DigestInv'
  <2>1. Stays /\ Typed BY <1>2, <1>3 DEF DraftSettings, ConfigsInv, ReloadSteps
  <2> QED BY <1>1, <1>3, <2>1 DEF DraftSettings
<1>4. ASSUME NEW r \in Reloads, CommitSettings(r) \/ BeginReload(r) \/ Waited(r) \/ LockToFill(r)
      PROVE  DigestInv'
  <2>1. Stays /\ Typed
    BY <1>2, <1>4 DEF CommitSettings, BeginReload, Waited, LockToFill, ReloadSteps
  <2> QED BY <1>1, <1>4, <2>1 DEF CommitSettings, BeginReload, Waited, LockToFill
<1>5. ASSUME NEW r \in Reloads, NEW ok \in BOOLEAN, LoadConfig(r, ok) PROVE DigestInv'
  <2>1. Stays /\ Typed BY <1>2, <1>5 DEF LoadConfig, ConfigsInv, ReloadSteps
  <2> QED BY <1>1, <1>5, <2>1 DEF LoadConfig
<1>6. ASSUME NEW r \in Reloads, Fill(r) PROVE DigestInv'
  <2>. DEFINE all == [n \in DOMAIN digest \cup DigestNames(draft[r]) |->
                        IF n \in DigestNames(draft[r]) THEN r ELSE digest[n]]
  <2>1. Stays /\ Typed BY <1>2, <1>6 DEF Fill, ReloadSteps
  <2>2. rpc'[r] = "done" /\ draft' = draft BY <1>6 DEF Fill, DigestInv
  <2>3. ASSUME NEW name \in DOMAIN all, NEW x, x = all[name] PROVE Made(x, name)'
    <3>1. CASE name \in DigestNames(draft[r])
      <4>1. name \in DigestNames(draft'[r]) BY <2>2, <3>1
      <4>2. x = r BY <2>3, <3>1
      <4> HIDE DEF all
      <4> QED BY <2>2, <4>1, <4>2 DEF Made, DigestNames, Enabled
    <3>2. CASE name \notin DigestNames(draft[r])
      <4>1. name \in DOMAIN digest /\ x = digest[name] BY <2>3, <3>2
      <4> HIDE DEF all
      <4> QED BY <1>k, <2>1, <4>1 DEF DigestInv
    <3> QED BY <3>1, <3>2
  <2>4. digest' = all /\ loops' = loops \cup {[made |-> all[n], name |-> n, ctx |-> r] : n \in DOMAIN all}
    BY <1>6 DEF Fill
  <2> HIDE DEF all
  <2>5. ASSUME NEW name \in DOMAIN all PROVE all[name] \in Reloads /\ name \in Names
    <3>1. PICK x : x = all[name] OBVIOUS
    <3>2. Made(x, name)' BY <2>3, <3>1
    <3>3. x \in Reloads /\ name \in DigestNames(draft'[x]) BY <3>2 DEF Made, DigestNames, Enabled
    <3> QED BY <2>2, <3>1, <3>3, DigestEntry DEF ConfigsInv
  <2>6. loops' \subseteq [made : Reloads, name : Names, ctx : Reloads]
    BY <2>4, <2>5 DEF DigestInv
  <2>7. \A l \in loops : Made(l.made, l.name)' BY <1>k, <2>1 DEF DigestInv
  <2>8. \A l \in loops' : Made(l.made, l.name)' BY <2>3, <2>4, <2>7
  <2> QED BY <2>1, <2>3, <2>4, <2>6, <2>8 DEF DigestInv
<1>7. ASSUME UNCHANGED <<rpc, draft, digest>>, loops' \subseteq loops PROVE DigestInv'
  <2>1. Stays /\ Typed BY <1>7 DEF DigestInv
  <2> QED BY <1>1, <1>7, <2>1
<1>8. CASE \E n \in Notices : DispatchBegin(n) \/ DispatchTo(n) \/ DispatchRace(n)
  BY <1>7, <1>8 DEF DispatchBegin, DispatchTo, DispatchRace
<1>9. CASE \E s \in sends : \E result \in Results(s) : Attempt(s, result)
  BY <1>7, <1>9 DEF Attempt
<1>10. CASE \E l \in loops : Looping(l)
  BY <1>7, <1>10 DEF Looping, LoopCollects, LoopTicks, LoopStops
<1>11. CASE Closing \/ Tick
  BY <1>7, <1>11 DEF Closing, BeginClose, CloseDigests, CloseSends, Tick
<1>12. CASE UNCHANGED vars BY <1>7, <1>12 DEF vars
<1> HIDE DEF Stays, Typed
<1> QED
  BY <1>3, <1>4, <1>5, <1>6, <1>8, <1>9, <1>10, <1>11, <1>12 DEF Next, Reloading

-------------------------------------------------------------------------------
(* A notice on its way to a channel is at one place: ahead of Dispatch, buffered, *)
(* collected, being sent, or acknowledged                                         *)

Holds(seq, n) == \E i \in DOMAIN seq : seq[i] = n

Place(at, of) == [at |-> at, of |-> of]

At(p, name, n) ==
  \/ /\ p = Place("todo", n)
     /\ \E i \in DOMAIN todo[n] : todo[n][i].name = name
  \/ \E b \in Boxes : p = Place("queue", b) /\ b[2] = name /\ Holds(queue[b], n)
  \/ \E b \in Boxes : p = Place("held", b) /\ b[2] = name /\ Holds(held[b], n)
  \/ \E s \in sends : p = Place("send", s) /\ s.to.name = name /\ Holds(s.notices, n)
  \/ p = Place("reached", n) /\ reached[<<name, n>>] > 0

FlowTypes ==
  /\ queue \in [Boxes -> Seq(Notices)] /\ held \in [Boxes -> Seq(Notices)]
  /\ sends \subseteq [to : ChannelEntry, notices : Seq(Notices), left : Int, ctx : Nat]
  /\ reached \in [Names \X Notices -> Nat]
  /\ todo \in [Notices -> Seq(ChannelEntry)]
  /\ \A n \in Notices : /\ NamesDiffer(todo[n])
                        /\ \A i \in DOMAIN todo[n] : todo[n][i].name \in Names

QueuesDiffer ==
  \A b \in Boxes : \A i, j \in DOMAIN queue[b] : queue[b][i] = queue[b][j] => i = j

OnePlace ==
  \A name \in Names, n \in Notices : \A p, q : At(p, name, n) /\ At(q, name, n) => p = q

NotYet ==
  \A name \in Names, n \in Notices : n \notin begun => \A p : ~At(p, name, n)

FlowInv == FlowTypes /\ QueuesDiffer /\ OnePlace /\ NotYet /\ DeliveredOnce

\* A step leaves a notice where it is or takes it to one place.
Moves(name, n) ==
  \/ \A p : At(p, name, n)' => At(p, name, n)
  \/ /\ \E q : At(q, name, n)
     /\ \E q : \A p : At(p, name, n)' => p = q

LEMMA OnceMoved ==
  ASSUME FlowInv, begun' = begun, \A name \in Names, n \in Notices : Moves(name, n)
  PROVE  OnePlace' /\ NotYet'
<1>1. ASSUME NEW name \in Names, NEW n \in Notices, NEW p, NEW q, At(p, name, n)', At(q, name, n)'
      PROVE  p = q
  BY <1>1 DEF FlowInv, OnePlace, Moves
<1>2. ASSUME NEW name \in Names, NEW n \in Notices, n \notin begun', NEW p, At(p, name, n)'
      PROVE  FALSE
  BY <1>2 DEF FlowInv, NotYet, Moves
<1> QED BY <1>1, <1>2 DEF OnePlace, NotYet

LEMMA FlowUnchanged ==
  ASSUME FlowInv, UNCHANGED <<queue, held, sends, reached, todo, begun>>
  PROVE  FlowInv'
<1>1. FlowTypes' /\ QueuesDiffer' /\ DeliveredOnce'
  BY DEF FlowInv, FlowTypes, QueuesDiffer, DeliveredOnce
<1>2. \A name, n, p : At(p, name, n)' <=> At(p, name, n) BY DEF At
<1> QED BY <1>1, <1>2 DEF FlowInv, OnePlace, NotYet

LEMMA FlowInit == Init => FlowInv
<1>. SUFFICES ASSUME Init PROVE FlowInv OBVIOUS
<1>1. <<>> \in Seq(Notices) /\ <<>> \in Seq(ChannelEntry) /\ DOMAIN <<>> = {} OBVIOUS
<1>2. FlowTypes
  <2>1. todo = [n \in Notices |-> <<>>] BY DEF Init
  <2>2. \A n \in Notices : todo[n] = <<>> BY <2>1
  <2> QED BY <1>1, <2>1, <2>2 DEF Init, FlowTypes, NamesDiffer
<1>3. \A b \in Boxes : queue[b] = <<>> /\ held[b] = <<>> BY DEF Init
<1>4. \A n \in Notices : todo[n] = <<>> BY DEF Init
<1>5. \A x \in Names \X Notices : reached[x] = 0 BY DEF Init
<1>6. ASSUME NEW name \in Names, NEW n \in Notices, NEW p, At(p, name, n) PROVE FALSE
  BY <1>1, <1>3, <1>4, <1>5, <1>6 DEF At, Holds, Init
<1>7. DeliveredOnce BY <1>5 DEF Init, DeliveredOnce
<1> QED BY <1>1, <1>2, <1>3, <1>6, <1>7 DEF FlowInv, QueuesDiffer, OnePlace, NotYet

LEMMA HoldsAppended ==
  ASSUME NEW S, NEW seq \in Seq(S), NEW x \in S
  PROVE  /\ \A y : Holds(Append(seq, x), y) => y = x \/ Holds(seq, y)
         /\ ~Holds(seq, x) /\ (\A i, j \in DOMAIN seq : seq[i] = seq[j] => i = j)
              => \A i, j \in DOMAIN Append(seq, x) : Append(seq, x)[i] = Append(seq, x)[j] => i = j
<1>1. Append(seq, x) \in Seq(S) BY AppendProperties
<1>2. /\ DOMAIN seq = 1..Len(seq) /\ Len(seq) \in Nat
      /\ DOMAIN Append(seq, x) = 1..(Len(seq) + 1)
  BY <1>1, LenProperties, AppendProperties
<1>3. \A i \in DOMAIN Append(seq, x) :
        \/ i \in DOMAIN seq /\ Append(seq, x)[i] = seq[i]
        \/ i = Len(seq) + 1 /\ Append(seq, x)[i] = x
  BY <1>2, AppendProperties
<1> QED BY <1>2, <1>3 DEF Holds

LEMMA HeadAndTail ==
  ASSUME NEW S, NEW seq \in Seq(S), seq # <<>>
  PROVE  /\ Tail(seq) \in Seq(S) /\ Head(seq) \in S
         /\ 1 \in DOMAIN seq /\ Head(seq) = seq[1]
         /\ \A i \in DOMAIN Tail(seq) :
              i + 1 \in DOMAIN seq /\ i \in Nat /\ i + 1 # 1 /\ Tail(seq)[i] = seq[i + 1]
<1>1. Tail(seq) \in Seq(S) /\ Head(seq) \in S BY HeadTailProperties
<1>2. Len(seq) \in Nat \ {0} BY EmptySeq
<1>3. DOMAIN seq = 1..Len(seq) /\ DOMAIN Tail(seq) = 1..(Len(seq) - 1)
  BY <1>1, LenProperties, HeadTailProperties
<1>4. Head(seq) = seq[1] OBVIOUS
<1> QED BY <1>1, <1>2, <1>3, <1>4, HeadTailProperties

-------------------------------------------------------------------------------
(* Dispatch *)

LEMMA BeginKeepsFlow ==
  ASSUME ConfigsInv, FlowInv, NEW n \in Notices, DispatchBegin(n)
  PROVE  FlowInv'
<1>. DEFINE next == IF config.enabled THEN config.channels ELSE <<>>
<1>1. /\ next \in Seq(ChannelEntry) /\ NamesDiffer(next)
      /\ \A i \in DOMAIN next : next[i].name \in Names
  <2>1. <<>> \in Seq(ChannelEntry) /\ DOMAIN <<>> = {} OBVIOUS
  <2> QED BY <2>1 DEF ConfigsInv, Proper, ChannelsConfig, NamesDiffer
<1> HIDE DEF next
<1>2. /\ n \notin begun /\ begun' = begun \cup {n} /\ todo' = [todo EXCEPT ![n] = next]
      /\ UNCHANGED <<queue, held, sends, reached>>
  BY DEF DispatchBegin, flowVars, next
<1>3. FlowTypes' BY <1>1, <1>2 DEF FlowInv, FlowTypes
<1>4. QueuesDiffer' /\ DeliveredOnce' BY <1>2 DEF FlowInv, QueuesDiffer, DeliveredOnce
<1>5. ASSUME NEW name \in Names, NEW m \in Notices, m # n, NEW p
      PROVE  At(p, name, m)' => At(p, name, m)
  <2>1. todo'[m] = todo[m] BY <1>2, <1>5 DEF FlowInv, FlowTypes
  <2> QED BY <1>2, <2>1 DEF At
<1>6. ASSUME NEW name \in Names, NEW p, At(p, name, n)'
      PROVE  p = Place("todo", n)
  <2>1. \A q : ~At(q, name, n) BY <1>2 DEF FlowInv, NotYet
  <2> QED BY <1>2, <1>6, <2>1 DEF At
<1>7. OnePlace'
  <2>1. ASSUME NEW name \in Names, NEW m \in Notices, NEW p, NEW q, At(p, name, m)', At(q, name, m)'
        PROVE  p = q
    BY <1>5, <1>6, <2>1 DEF FlowInv, OnePlace
  <2> QED BY <2>1 DEF OnePlace
<1>8. NotYet'
  <2>1. ASSUME NEW name \in Names, NEW m \in Notices, m \notin begun', NEW p, At(p, name, m)'
        PROVE  FALSE
    BY <1>2, <1>5, <2>1 DEF FlowInv, NotYet
  <2> QED BY <2>1 DEF NotYet
<1> QED BY <1>3, <1>4, <1>7, <1>8 DEF FlowInv

LEMMA DispatchKeepsFlow ==
  ASSUME ConfigsInv, DigestInv, FlowInv, NEW n \in Notices, DispatchTo(n)
  PROVE  FlowInv'
<1>e. PICK e, b, s : /\ e = Head(todo[n])
                     /\ b = <<digest[e.name], e.name>>
                     /\ s = [to |-> e, notices |-> <<n>>, left |-> Retries(e), ctx |-> 0]
  OBVIOUS
<1>1. /\ todo \in [Notices -> Seq(ChannelEntry)] /\ todo[n] \in Seq(ChannelEntry) /\ todo[n] # <<>>
      /\ NamesDiffer(todo[n]) /\ \A i \in DOMAIN todo[n] : todo[n][i].name \in Names
  BY DEF DispatchTo, FlowInv, FlowTypes
<1>2. /\ e \in ChannelEntry /\ e.name \in Names /\ 1 \in DOMAIN todo[n] /\ e = todo[n][1]
      /\ Tail(todo[n]) \in Seq(ChannelEntry) /\ NamesDiffer(Tail(todo[n]))
      /\ \A i \in DOMAIN Tail(todo[n]) :
           \E j \in DOMAIN todo[n] : Tail(todo[n])[i] = todo[n][j] /\ todo[n][j].name # e.name
  <2>1. /\ e \in ChannelEntry /\ 1 \in DOMAIN todo[n] /\ e = todo[n][1]
        /\ Tail(todo[n]) \in Seq(ChannelEntry)
        /\ \A i \in DOMAIN Tail(todo[n]) :
             i + 1 \in DOMAIN todo[n] /\ i \in Nat /\ i + 1 # 1 /\ Tail(todo[n])[i] = todo[n][i + 1]
    BY <1>1, <1>e, HeadAndTail
  <2>2. e.name \in Names BY <1>1, <2>1
  <2>3. NamesDiffer(Tail(todo[n]))
    <3>1. ASSUME NEW i \in DOMAIN Tail(todo[n]), NEW j \in DOMAIN Tail(todo[n]),
                 Tail(todo[n])[i].name = Tail(todo[n])[j].name
          PROVE  i = j
      <4>1. i + 1 = j + 1 BY <1>1, <2>1, <3>1 DEF NamesDiffer
      <4> QED BY <2>1, <4>1
    <3> QED BY <3>1 DEF NamesDiffer
  <2>4. ASSUME NEW i \in DOMAIN Tail(todo[n])
        PROVE  \E j \in DOMAIN todo[n] : Tail(todo[n])[i] = todo[n][j] /\ todo[n][j].name # e.name
    BY <1>1, <2>1 DEF NamesDiffer
  <2> QED BY <2>1, <2>2, <2>3, <2>4
<1>3. /\ todo' = [todo EXCEPT ![n] = Tail(todo[n])] /\ begun' = begun
      /\ held' = held /\ reached' = reached
      /\ \/ queue' = queue /\ sends' = sends
         \/ /\ e.name \in DOMAIN digest
            /\ queue' = [queue EXCEPT ![b] = Append(queue[b], n)] /\ sends' = sends
         \/ queue' = queue /\ sends' = sends \cup {s}
  BY <1>e DEF DispatchTo, Queued, SendTo, lifeVars
<1>4. e.name \in DOMAIN digest => b \in Boxes BY <1>2, <1>e DEF DigestInv, Made, Boxes
<1>5. s \in [to : ChannelEntry, notices : Seq(Notices), left : Int, ctx : Nat]
  <2>1. Retries(e) \in Int BY <1>2 DEF Retries, ChannelEntry
  <2>2. <<n>> \in Seq(Notices) OBVIOUS
  <2> QED BY <1>2, <1>e, <2>1, <2>2
<1>6. /\ DOMAIN b = {1, 2} /\ b[2] = e.name
      /\ s.to = e /\ \A m : Holds(s.notices, m) => m = n
  BY <1>e DEF Holds
<1>7. \A p : At(p, e.name, n) => p = Place("todo", n)
  <2>1. At(Place("todo", n), e.name, n) BY <1>2 DEF At
  <2> QED BY <1>2, <2>1 DEF FlowInv, OnePlace
<1>8. e.name \in DOMAIN digest =>
        /\ queue[b] \in Seq(Notices) /\ ~Holds(queue[b], n)
        /\ \A y : Holds(Append(queue[b], n), y) => y = n \/ Holds(queue[b], y)
  <2>1. SUFFICES ASSUME e.name \in DOMAIN digest
                 PROVE  /\ queue[b] \in Seq(Notices) /\ ~Holds(queue[b], n)
                        /\ \A y : Holds(Append(queue[b], n), y) => y = n \/ Holds(queue[b], y)
    OBVIOUS
  <2>2. queue[b] \in Seq(Notices) BY <1>4, <2>1 DEF FlowInv, FlowTypes
  <2>3. Holds(queue[b], n) => At(Place("queue", b), e.name, n) BY <1>4, <1>6, <2>1 DEF At
  <2>4. ~Holds(queue[b], n) BY <1>7, <2>3 DEF Place
  <2> QED BY <2>2, <2>4, HoldsAppended
<1>9. FlowTypes'
  <2>1. queue' \in [Boxes -> Seq(Notices)]
    <3>1. queue \in [Boxes -> Seq(Notices)] BY DEF FlowInv, FlowTypes
    <3>2. e.name \in DOMAIN digest => Append(queue[b], n) \in Seq(Notices)
      BY <1>8, AppendProperties
    <3> QED BY <1>3, <1>4, <3>1, <3>2
  <2>2. todo' \in [Notices -> Seq(ChannelEntry)]
        /\ \A m \in Notices : /\ NamesDiffer(todo'[m])
                              /\ \A i \in DOMAIN todo'[m] : todo'[m][i].name \in Names
    <3>1. \A i \in DOMAIN Tail(todo[n]) : Tail(todo[n])[i].name \in Names BY <1>1, <1>2
    <3> QED BY <1>1, <1>2, <1>3, <3>1 DEF FlowInv, FlowTypes
  <2> QED BY <1>3, <1>5, <2>1, <2>2 DEF FlowInv, FlowTypes
<1>10. QueuesDiffer'
  <2>1. ASSUME NEW x \in Boxes
        PROVE  \A i, j \in DOMAIN queue'[x] : queue'[x][i] = queue'[x][j] => i = j
    <3>1. CASE queue'[x] = queue[x] BY <3>1 DEF FlowInv, QueuesDiffer
    <3>2. CASE queue'[x] # queue[x]
      <4>1. e.name \in DOMAIN digest /\ x = b /\ queue'[x] = Append(queue[b], n)
        BY <1>3, <3>2 DEF FlowInv, FlowTypes
      <4>2. \A i, j \in DOMAIN queue[b] : queue[b][i] = queue[b][j] => i = j
        BY <4>1 DEF FlowInv, QueuesDiffer
      <4>3. queue[b] \in Seq(Notices) /\ ~Holds(queue[b], n) BY <1>8, <4>1
      <4> QED BY <4>1, <4>2, <4>3, HoldsAppended
    <3> QED BY <3>1, <3>2
  <2> QED BY <2>1 DEF QueuesDiffer
<1>11. ASSUME NEW name \in Names, NEW m \in Notices, m # n \/ name # e.name, NEW p, At(p, name, m)'
       PROVE  At(p, name, m)
  <2>1. ASSUME NEW i \in DOMAIN todo'[m], todo'[m][i].name = name
        PROVE  \E j \in DOMAIN todo[m] : todo[m][j].name = name
    BY <1>1, <1>2, <1>3, <2>1
  <2>2. ASSUME NEW x \in Boxes, x[2] = name, Holds(queue'[x], m) PROVE Holds(queue[x], m)
    BY <1>3, <1>4, <1>6, <1>8, <1>11, <2>2 DEF FlowInv, FlowTypes
  <2>3. ASSUME NEW x \in sends', x.to.name = name, Holds(x.notices, m) PROVE x \in sends
    BY <1>3, <1>6, <1>11, <2>3
  <2> QED BY <1>3, <1>11, <2>1, <2>2, <2>3 DEF At
<1>12. /\ \E q : At(q, e.name, n)
       /\ \E q : \A p : At(p, e.name, n)' => p = q
  <2>1. At(Place("todo", n), e.name, n) BY <1>2 DEF At
  <2>2. ~\E i \in DOMAIN todo'[n] : todo'[n][i].name = e.name BY <1>1, <1>2, <1>3
  <2>3. /\ ~\E x \in Boxes : x[2] = e.name /\ Holds(queue[x], n)
        /\ ~\E x \in Boxes : x[2] = e.name /\ Holds(held[x], n)
        /\ ~\E x \in sends : x.to.name = e.name /\ Holds(x.notices, n)
        /\ ~(reached[<<e.name, n>>] > 0)
    BY <1>7 DEF At, Place
  <2>4. CASE sends' = sends
    <3>1. ASSUME NEW x \in Boxes, x[2] = e.name, Holds(queue'[x], n) PROVE x = b
      BY <1>3, <2>3, <2>4, <3>1 DEF FlowInv, FlowTypes
    <3>2. \A p : At(p, e.name, n)' => p = Place("queue", b)
      BY <1>3, <2>2, <2>3, <2>4, <3>1 DEF At
    <3> QED BY <2>1, <3>2
  <2>5. CASE queue' = queue /\ sends' = sends \cup {s}
    <3>1. \A p : At(p, e.name, n)' => p = Place("send", s)
      BY <1>3, <2>2, <2>3, <2>5 DEF At
    <3> QED BY <2>1, <3>1
  <2> QED BY <1>3, <2>4, <2>5
<1>13. \A name \in Names, m \in Notices : Moves(name, m)
  BY <1>11, <1>12 DEF Moves
<1>14. DeliveredOnce' BY <1>3 DEF FlowInv, DeliveredOnce
<1> QED BY <1>3, <1>9, <1>10, <1>13, <1>14, OnceMoved DEF FlowInv

-------------------------------------------------------------------------------
(* Sends and digest loops *)

LEMMA AttemptKeepsFlow ==
  ASSUME FlowInv, NEW s \in sends, NEW result, Attempt(s, result)
  PROVE  FlowInv'
<1>t. PICK t : t = [s EXCEPT !.left = @ - 1] OBVIOUS
<1>. DEFINE Sent(name, n) == result \in {"ok", "noQuit"} /\ s.to.name = name /\ Holds(s.notices, n)
<1>1. /\ s \in [to : ChannelEntry, notices : Seq(Notices), left : Int, ctx : Nat]
      /\ t \in [to : ChannelEntry, notices : Seq(Notices), left : Int, ctx : Nat]
      /\ t.to = s.to /\ t.notices = s.notices
  <2>1. s \in [to : ChannelEntry, notices : Seq(Notices), left : Int, ctx : Nat]
    BY DEF FlowInv, FlowTypes
  <2>2. s.left - 1 \in Int BY <2>1
  <2> QED BY <1>t, <2>1, <2>2
<1>2. /\ sends' = (sends \ {s}) \cup IF result = "again" THEN {t} ELSE {}
      /\ UNCHANGED <<queue, held, todo, begun>>
  BY <1>t DEF Attempt, lifeVars
<1>3. /\ reached \in [Names \X Notices -> Nat] /\ reached' \in [Names \X Notices -> Nat]
      /\ \A name \in Names, n \in Notices :
           reached'[<<name, n>>] = IF Sent(name, n) THEN reached[<<name, n>>] + 1 ELSE reached[<<name, n>>]
  <2>1. reached \in [Names \X Notices -> Nat] BY DEF FlowInv, FlowTypes
  <2>2. reached' = [x \in DOMAIN reached |->
                     IF Sent(x[1], x[2]) THEN reached[x] + 1 ELSE reached[x]]
    BY DEF Attempt, Holds
  <2> HIDE DEF Sent
  <2> QED BY <2>1, <2>2
<1>4. ASSUME NEW name \in Names, NEW n \in Notices, Sent(name, n) PROVE reached[<<name, n>>] = 0
  <2>1. At(Place("send", s), name, n) BY <1>4 DEF At
  <2>2. ~At(Place("reached", n), name, n) BY <2>1 DEF FlowInv, OnePlace, Place
  <2> QED BY <1>3, <2>2 DEF At
<1>5. FlowTypes' BY <1>1, <1>2, <1>3 DEF FlowInv, FlowTypes
<1>6. QueuesDiffer' BY <1>2 DEF FlowInv, QueuesDiffer
<1>7. DeliveredOnce'
  <2>1. ASSUME NEW x \in Names \X Notices PROVE reached'[x] <= 1
    <3>1. PICK name \in Names, n \in Notices : x = <<name, n>> OBVIOUS
    <3>2. reached[x] <= 1 BY <1>3 DEF FlowInv, DeliveredOnce
    <3> HIDE DEF Sent
    <3> QED BY <1>3, <1>4, <3>1, <3>2
  <2> QED BY <1>3, <2>1 DEF DeliveredOnce
<1>8. ASSUME NEW name \in Names, NEW n \in Notices PROVE Moves(name, n)
  <2>1. CASE ~(s.to.name = name /\ Holds(s.notices, n))
    <3>1. ASSUME NEW x \in sends', x.to.name = name, Holds(x.notices, n) PROVE x \in sends
      BY <1>1, <1>2, <2>1, <3>1
    <3>2. reached'[<<name, n>>] = reached[<<name, n>>] BY <1>3, <2>1
    <3>3. \A p : At(p, name, n)' => At(p, name, n) BY <1>2, <3>1, <3>2 DEF At
    <3> QED BY <3>3 DEF Moves
  <2>2. CASE s.to.name = name /\ Holds(s.notices, n)
    <3>1. At(Place("send", s), name, n) BY <2>2 DEF At
    <3>2. \A p : At(p, name, n) => p = Place("send", s) BY <3>1 DEF FlowInv, OnePlace
    <3>3. /\ ~\E i \in DOMAIN todo[n] : todo[n][i].name = name
          /\ ~\E x \in Boxes : x[2] = name /\ Holds(queue[x], n)
          /\ ~\E x \in Boxes : x[2] = name /\ Holds(held[x], n)
          /\ \A x \in sends : x.to.name = name /\ Holds(x.notices, n) => x = s
          /\ ~(reached[<<name, n>>] > 0)
      BY <3>2 DEF At, Place
    <3>4. CASE result \in {"ok", "noQuit"}
      <4>1. \A p : At(p, name, n)' => p = Place("reached", n)
        BY <1>2, <3>3, <3>4 DEF At
      <4> QED BY <3>1, <4>1 DEF Moves
    <3>5. CASE result \notin {"ok", "noQuit"}
      <4>1. reached'[<<name, n>>] = reached[<<name, n>>] BY <1>3, <3>5
      <4>2. \A p : At(p, name, n)' => p = Place("send", t)
        BY <1>2, <3>3, <4>1 DEF At
      <4> QED BY <3>1, <4>2 DEF Moves
    <3> QED BY <3>4, <3>5
  <2> QED BY <2>1, <2>2
<1> QED BY <1>2, <1>5, <1>6, <1>7, <1>8, OnceMoved DEF FlowInv

LEMMA CollectKeepsFlow ==
  ASSUME DigestInv, FlowInv, NEW l \in loops, LoopCollects(l)
  PROVE  FlowInv'
<1>b. PICK b, m : b = Box(l) /\ m = Head(queue[b]) OBVIOUS
<1>1. b \in Boxes /\ b[2] = l.name BY <1>b DEF DigestInv, Boxes, Box
<1>2. /\ queue[b] # <<>>
      /\ held' = [held EXCEPT ![b] = Append(held[b], m)]
      /\ queue' = [queue EXCEPT ![b] = Tail(queue[b])]
      /\ UNCHANGED <<sends, reached, todo, begun>>
  BY <1>b DEF LoopCollects, lifeVars
<1>3. queue \in [Boxes -> Seq(Notices)] /\ held \in [Boxes -> Seq(Notices)]
  BY DEF FlowInv, FlowTypes
<1>4. /\ Tail(queue[b]) \in Seq(Notices) /\ m \in Notices
      /\ 1 \in DOMAIN queue[b] /\ m = queue[b][1]
      /\ \A i \in DOMAIN Tail(queue[b]) :
           i + 1 \in DOMAIN queue[b] /\ i \in Nat /\ i + 1 # 1 /\ Tail(queue[b])[i] = queue[b][i + 1]
  BY <1>1, <1>2, <1>3, <1>b, HeadAndTail
<1>5. \A i, j \in DOMAIN queue[b] : queue[b][i] = queue[b][j] => i = j
  BY <1>1 DEF FlowInv, QueuesDiffer
<1>6. /\ ~Holds(Tail(queue[b]), m) /\ Holds(queue[b], m)
      /\ \A n : Holds(Tail(queue[b]), n) => Holds(queue[b], n)
  BY <1>4, <1>5 DEF Holds
<1>7. \A n : Holds(Append(held[b], m), n) => n = m \/ Holds(held[b], n)
  BY <1>1, <1>3, <1>4, HoldsAppended
<1>8. FlowTypes'
  <2>1. Append(held[b], m) \in Seq(Notices) BY <1>1, <1>3, <1>4, AppendProperties
  <2> QED BY <1>2, <1>3, <1>4, <2>1 DEF FlowInv, FlowTypes
<1>9. QueuesDiffer'
  <2>1. \A i, j \in DOMAIN Tail(queue[b]) : Tail(queue[b])[i] = Tail(queue[b])[j] => i = j
    <3>1. ASSUME NEW i \in DOMAIN Tail(queue[b]), NEW j \in DOMAIN Tail(queue[b]),
                 Tail(queue[b])[i] = Tail(queue[b])[j]
          PROVE  i = j
      <4>1. i + 1 = j + 1 BY <1>4, <1>5, <3>1
      <4> QED BY <1>4, <4>1
    <3> QED BY <3>1
  <2>2. \A x \in Boxes : queue'[x] = IF x = b THEN Tail(queue[b]) ELSE queue[x] BY <1>2, <1>3
  <2> QED BY <2>1, <2>2 DEF FlowInv, QueuesDiffer
<1>10. /\ \A x \in Boxes : queue'[x] = IF x = b THEN Tail(queue[b]) ELSE queue[x]
       /\ \A x \in Boxes : held'[x] = IF x = b THEN Append(held[b], m) ELSE held[x]
  BY <1>2, <1>3
<1>11. ASSUME NEW name \in Names, NEW n \in Notices PROVE Moves(name, n)
  <2>1. CASE ~(name = b[2] /\ n = m)
    <3>1. ASSUME NEW x \in Boxes, x[2] = name, Holds(held'[x], n) PROVE Holds(held[x], n)
      BY <1>7, <1>10, <2>1, <3>1
    <3>2. ASSUME NEW x \in Boxes, Holds(queue'[x], n) PROVE Holds(queue[x], n)
      BY <1>6, <1>10, <3>2
    <3>3. \A p : At(p, name, n)' => At(p, name, n) BY <1>2, <3>1, <3>2 DEF At
    <3> QED BY <3>3 DEF Moves
  <2>2. CASE name = b[2] /\ n = m
    <3>1. At(Place("queue", b), name, n) BY <1>1, <1>6, <2>2 DEF At
    <3>2. \A p : At(p, name, n) => p = Place("queue", b) BY <3>1 DEF FlowInv, OnePlace
    <3>3. /\ ~\E i \in DOMAIN todo[n] : todo[n][i].name = name
          /\ \A x \in Boxes : x[2] = name /\ Holds(queue[x], n) => x = b
          /\ ~\E x \in Boxes : x[2] = name /\ Holds(held[x], n)
          /\ ~\E x \in sends : x.to.name = name /\ Holds(x.notices, n)
          /\ ~(reached[<<name, n>>] > 0)
      BY <3>2 DEF At, Place
    <3>4. ~\E x \in Boxes : x[2] = name /\ Holds(queue'[x], n) BY <1>6, <1>10, <2>2, <3>3
    <3>5. \A x \in Boxes : x[2] = name /\ Holds(held'[x], n) => x = b BY <1>10, <3>3
    <3>6. \A p : At(p, name, n)' => p = Place("held", b) BY <1>2, <3>3, <3>4, <3>5 DEF At
    <3> QED BY <3>1, <3>6 DEF Moves
  <2> QED BY <2>1, <2>2
<1>12. DeliveredOnce' BY <1>2 DEF FlowInv, DeliveredOnce
<1> QED BY <1>2, <1>8, <1>9, <1>11, <1>12, OnceMoved DEF FlowInv

LEMMA TickKeepsFlow ==
  ASSUME ConfigsInv, DigestInv, FlowInv, NEW l \in loops, LoopTicks(l)
  PROVE  FlowInv'
<1>b. PICK b, e : b = Box(l) /\ e = Entry(l) OBVIOUS
<1>s. PICK s : s = [to |-> e, notices |-> held[b], left |-> 0, ctx |-> l.ctx] OBVIOUS
<1>1. b \in Boxes /\ b[2] = l.name /\ l.ctx \in Nat
  BY <1>b, HubAssumption DEF DigestInv, Boxes, Box
<1>2. /\ held' = [held EXCEPT ![b] = <<>>]
      /\ sends' = sends \cup {s}
      /\ UNCHANGED <<queue, reached, todo, begun>>
  BY <1>b, <1>s DEF LoopTicks, Taken, lifeVars
<1>3. e \in ChannelEntry /\ e.name = l.name
  <2>1. Proper(draft[l.made]) /\ l.name \in DigestNames(draft[l.made])
    BY DEF ConfigsInv, DigestInv, Made
  <2>2. \E x \in Enabled(draft[l.made]) : x.name = l.name /\ Digest(x) BY <2>1, DigestEntry
  <2>3. e \in Enabled(draft[l.made]) /\ e.name = l.name BY <1>b, <2>2 DEF Entry
  <2> QED BY <2>1, <2>3, EnabledEntries
<1>4. /\ held \in [Boxes -> Seq(Notices)] /\ held[b] \in Seq(Notices)
      /\ s.to = e /\ s.notices = held[b]
  BY <1>1, <1>s DEF FlowInv, FlowTypes
<1>5. FlowTypes'
  <2>1. s \in [to : ChannelEntry, notices : Seq(Notices), left : Int, ctx : Nat]
    BY <1>1, <1>3, <1>4, <1>s
  <2>2. <<>> \in Seq(Notices) OBVIOUS
  <2> QED BY <1>2, <1>4, <2>1, <2>2 DEF FlowInv, FlowTypes
<1>6. \A x \in Boxes : held'[x] = IF x = b THEN <<>> ELSE held[x] BY <1>2, <1>4
<1>7. \A n : ~Holds(<<>>, n) BY DEF Holds
<1>8. ASSUME NEW name \in Names, NEW n \in Notices PROVE Moves(name, n)
  <2>1. \A x \in Boxes : Holds(held'[x], n) => x # b /\ Holds(held[x], n) BY <1>6, <1>7
  <2>2. CASE ~(name = l.name /\ Holds(held[b], n))
    <3>1. \A p : At(p, name, n)' => At(p, name, n) BY <1>2, <1>3, <1>4, <2>1, <2>2 DEF At
    <3> QED BY <3>1 DEF Moves
  <2>3. CASE name = l.name /\ Holds(held[b], n)
    <3>1. At(Place("held", b), name, n) BY <1>1, <2>3 DEF At
    <3>2. \A p : At(p, name, n) => p = Place("held", b) BY <3>1 DEF FlowInv, OnePlace
    <3>3. /\ ~\E i \in DOMAIN todo[n] : todo[n][i].name = name
          /\ ~\E x \in Boxes : x[2] = name /\ Holds(queue[x], n)
          /\ \A x \in Boxes : x[2] = name /\ Holds(held[x], n) => x = b
          /\ ~\E x \in sends : x.to.name = name /\ Holds(x.notices, n)
          /\ ~(reached[<<name, n>>] > 0)
      BY <3>2 DEF At, Place
    <3>4. \A p : At(p, name, n)' => p = Place("send", s) BY <1>2, <2>1, <3>3 DEF At
    <3> QED BY <3>1, <3>4 DEF Moves
  <2> QED BY <2>2, <2>3
<1>9. QueuesDiffer' /\ DeliveredOnce' BY <1>2 DEF FlowInv, QueuesDiffer, DeliveredOnce
<1> QED BY <1>2, <1>5, <1>8, <1>9, OnceMoved DEF FlowInv

-------------------------------------------------------------------------------

LEMMA FlowStep ==
  ASSUME ConfigsInv, DigestInv, FlowInv, [Next]_vars
  PROVE  FlowInv'
<1>. USE DEF mapVars, lifeVars, flowVars
<1>1. CASE \E r \in Reloads : Reloading(r)
  BY <1>1, FlowUnchanged DEF Reloading, DraftSettings, CommitSettings, BeginReload, Waited,
     LoadConfig, LockToFill, Fill
<1>2. CASE \E n \in Notices : DispatchBegin(n) BY <1>2, BeginKeepsFlow
<1>3. CASE \E n \in Notices : DispatchTo(n) BY <1>3, DispatchKeepsFlow
<1>4. CASE \E n \in Notices : DispatchRace(n) BY <1>4, FlowUnchanged DEF DispatchRace
<1>5. CASE \E s \in sends : \E result \in Results(s) : Attempt(s, result)
  BY <1>5, AttemptKeepsFlow
<1>6. CASE \E l \in loops : Looping(l)
  BY <1>6, CollectKeepsFlow, TickKeepsFlow, FlowUnchanged DEF Looping, LoopStops
<1>7. CASE Closing \/ Tick
  BY <1>7, FlowUnchanged DEF Closing, BeginClose, CloseDigests, CloseSends, Tick
<1>8. CASE UNCHANGED vars BY <1>8, FlowUnchanged DEF vars
<1> QED BY <1>1, <1>2, <1>3, <1>4, <1>5, <1>6, <1>7, <1>8 DEF Next

\* However many reloads overlap, whatever fails and is tried again, and whenever Close
\* comes: no channel acknowledges a notice twice (Dispatch, StartDigestLoop, Reload).
THEOREM NoticesReachOnce ==
  ASSUME OwnNames
  PROVE  Spec => []DeliveredOnce
<1>1. Init => ConfigsInv /\ DigestInv /\ FlowInv BY ConfigsInit, DigestInit, FlowInit
<1>2. ConfigsInv /\ DigestInv /\ FlowInv /\ [Next]_vars => (ConfigsInv /\ DigestInv /\ FlowInv)'
  BY ConfigsStep, DigestStep, FlowStep
<1>3. FlowInv => DeliveredOnce BY DEF FlowInv
<1> QED BY <1>1, <1>2, <1>3, PTL DEF Spec

===============================================================================

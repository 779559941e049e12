-------------------------- MODULE StaticSiteProofs --------------------------
(***************************************************************************)
(* Proofs about StaticSite, for any files, contents, paths and settings.   *)
(* That a tag names its bytes is decided long before an asset is served:   *)
(* the invariant follows it from the hash recorded in the manifest, through *)
(* the draft of the snapshot, to the binary.  It holds for a setting whose  *)
(* developer edits nothing in between, and the copies of the clients follow *)
(* from it where no request carries a date alone, or where dates tell the   *)
(* versions of a file apart.                                                *)
(***************************************************************************)
EXTENDS StaticSite, TLAPS

\* What the build has gathered: in the first half the hashes; in the second,
\* which starts from all of them, the assets of the files already read.
DraftIsPartial ==
    /\ phase = "manifest" => draft \in [Key -> Meta \cup {Nil}]
    /\ phase = "snapshot" =>
          /\ todo \subseteq Has(draft)
          /\ \A k \in Has(draft) : draft[k] \in IF k \in todo THEN Meta ELSE Asset

\* What was gathered is of the files as they are.
DraftIsFresh ==
    /\ phase # "idle" =>
          \A k \in Has(draft) :
              /\ disk[k] # Nil
              /\ draft[k].hash = disk[k].bytes
              /\ draft[k].lastModifiedTime = Seconds(disk[k].mtime)
    /\ phase = "snapshot" => \A k \in Has(draft) \ todo : draft[k].source = disk[k].bytes

BinaryIsTagged == \A k \in Has(binary) : binary[k].hash = binary[k].source

-----------------------------------------------------------------------------
(* Dates *)

\* A setting whose dates tell the versions of a file apart: files get newer, and
\* never twice in a second, and one asset answers for a URL.
DatesTell(s) ==
    /\ s.upToDate
    /\ ~s.mtimesGoBack /\ s.minGap >= s.ticksPerSecond
    /\ s.spaEntrypoint = Nil /\ s.notFoundPage = Nil
    /\ \A u \in Url : \A i, j \in DOMAIN s.candidates[u] : s.candidates[u][i] = s.candidates[u][j]

\* A version with these bytes and this time is older than that of a site's asset,
\* or the same.
NoNewer(bytes, time, asset) ==
    /\ time <= asset.lastModifiedTime
    /\ time = asset.lastModifiedTime => bytes = asset.source

\* A file as a build would take it now.
OnDisk(k) == [source |-> disk[k].bytes, lastModifiedTime |-> Seconds(disk[k].mtime)]

\* A version of asset k, or none, is no newer than any further up.  That it is not
\* of a later second than the last edit makes this hold of the next one too.
FollowsDisk(k, bytes, time) ==
    time <= Seconds(clock) /\ (disk[k] # Nil => NoNewer(bytes, time, OnDisk(k)))
FollowsBinary(k, bytes, time) ==
    FollowsDisk(k, bytes, time) /\ (binary[k] # Nil => NoNewer(bytes, time, binary[k]))
FollowsLive(k, bytes, time) ==
    FollowsBinary(k, bytes, time) /\ (live[k] # Nil => NoNewer(bytes, time, live[k]))

DiskIsPast == \A k \in Has(disk) : disk[k].mtime <= clock
BinaryFollows ==
    \A k \in Has(binary) : FollowsDisk(k, binary[k].source, binary[k].lastModifiedTime)
LiveFollows ==
    \A k \in Has(live) : FollowsBinary(k, live[k].source, live[k].lastModifiedTime)
Dated(u) == copy[u] # Nil /\ copy[u].date # Nil
CopiesFollow ==
    \A u \in Url : Dated(u) =>
        \A i \in DOMAIN Candidates[u] : FollowsLive(Candidates[u][i], copy[u].body, copy[u].date)

InOrder == DiskIsPast /\ BinaryFollows /\ LiveFollows /\ CopiesFollow

\* No request carries a date alone, or dates tell.
Validates(s) == s.upToDate /\ ("since" \notin s.conditions \/ DatesTell(s))

IInv ==
    /\ TypeOK
    /\ DraftIsPartial
    /\ setting.upToDate => DraftIsFresh /\ BinaryIsTagged /\ EtagNamesBytes
    /\ DatesTell(setting) => InOrder
    /\ Validates(setting) => CopyKeepsItsTag /\ ShownIsCurrent

-----------------------------------------------------------------------------
LEMMA SettingIsTyped ==
    ASSUME TypeOK
    PROVE  /\ setting \in Setting
           /\ Versions \in [Key -> SUBSET Bytes] /\ Candidates \in [Url -> Seq(Key)]
           /\ {spaEntrypoint, notFoundPage} \subseteq Key \cup {Nil}
           /\ TicksPerSecond \in Nat \ {0}
           /\ setting.maxTime \in Nat /\ setting.minGap \in Nat
  BY StaticSiteAssumption
     DEF TypeOK, Setting, Versions, Candidates, spaEntrypoint, notFoundPage, TicksPerSecond

\* createFileInfo: the hash of what is on disk now, and a time in seconds.
LEMMA FileInfoIsTyped ==
    ASSUME TypeOK, NEW k \in Key, disk[k] # Nil
    PROVE  /\ FileInfo(k) \in Meta /\ FileInfo(k).hash = disk[k].bytes
           /\ FileInfo(k).lastModifiedTime = Seconds(disk[k].mtime)
<1>1. disk[k].bytes \in Bytes /\ disk[k].mtime \in Nat
  BY DEF TypeOK, File
<1>2. TicksPerSecond \in Nat /\ TicksPerSecond > 0
  BY SettingIsTyped
<1>3. Seconds(disk[k].mtime) \in Nat
  BY <1>1, <1>2 DEF Seconds
<1> QED
  BY <1>1, <1>3 DEF FileInfo, Meta

LEMMA SettingsStay ==
    ASSUME UNCHANGED setting
    PROVE  /\ DatesTell(setting)' <=> DatesTell(setting)
           /\ Validates(setting)' <=> Validates(setting)
  BY DEF DatesTell, Validates

LEMMA OrderStays ==
    ASSUME InOrder, UNCHANGED <<setting, clock, disk, binary, live, copy>>
    PROVE  InOrder'
  BY DEF InOrder, DiskIsPast, BinaryFollows, LiveFollows, CopiesFollow, FollowsDisk,
         FollowsBinary, FollowsLive, NoNewer, OnDisk, Dated, Has, Candidates, Seconds,
         TicksPerSecond

LEMMA InitIInv == Init => IInv
<1> SUFFICES ASSUME Init PROVE IInv
  OBVIOUS
<1>1. Has(binary) = {} /\ Has(live) = {} /\ Has(draft) = {}
  BY DEF Init, Has, Nothing
<1>2. setting.maxTime \in Nat
  BY StaticSiteAssumption DEF Init, Setting
<1>3. TypeOK
  BY <1>2 DEF Init, TypeOK, Nothing
<1> QED
  BY <1>1, <1>3 DEF Init, IInv, DraftIsPartial, DraftIsFresh, BinaryIsTagged,
                    EtagNamesBytes, CopyKeepsItsTag, ShownIsCurrent, InOrder, DiskIsPast,
                    BinaryFollows, LiveFollows, CopiesFollow, Dated, Has, Nothing

-----------------------------------------------------------------------------
(* Seconds *)

LEMMA DivisionBounds ==
    ASSUME NEW d \in Nat, d > 0, NEW a \in Nat
    PROVE  a \div d \in Nat /\ d * (a \div d) <= a /\ a < d * (a \div d) + d
<1>1. a % d \in 0 .. d - 1 /\ a \div d \in Nat
  OBVIOUS
<1>2. a = d * (a \div d) + (a % d)
  OBVIOUS
<1>3. d * (a \div d) \in Nat
  BY <1>1
<1> QED
  BY <1>1, <1>2, <1>3

\* A second or more later is a later second.
LEMMA SecondsPass ==
    ASSUME TypeOK, NEW a \in Nat, NEW b \in Nat
    PROVE  /\ Seconds(a) \in Nat
           /\ b >= a + TicksPerSecond => Seconds(a) < Seconds(b)
           /\ a <= b => Seconds(a) <= Seconds(b)
<1> DEFINE d == TicksPerSecond
           q == a \div d
           s == b \div d
<1>1. d \in Nat /\ d > 0
  BY SettingIsTyped
<1>2. /\ q \in Nat /\ d * q <= a /\ a < d * q + d
      /\ s \in Nat /\ d * s <= b /\ b < d * s + d
  BY <1>1, DivisionBounds
<1>3. Seconds(a) = q /\ Seconds(b) = s
  BY DEF Seconds
<1> HIDE DEF d, q, s
<1>4. d * (s + 1) = d * s + d /\ d * (q + 1) = d * q + d
  BY <1>1, <1>2
<1>5. d * q \in Nat /\ d * s \in Nat
  BY <1>1, <1>2
<1>6. s <= q => d * s <= d * q
  BY <1>1, <1>2
<1>7. s + 1 <= q => d * (s + 1) <= d * q
  BY <1>1, <1>2
<1>8. b >= a + d => ~(s <= q)
  BY <1>1, <1>2, <1>5, <1>6
<1>9. a <= b => ~(s + 1 <= q)
  BY <1>1, <1>2, <1>4, <1>5, <1>7
<1> QED
  BY <1>1, <1>2, <1>3, <1>8, <1>9 DEF d

-----------------------------------------------------------------------------
(* The directory and the build *)

LEMMA TimesAreTyped ==
    ASSUME TypeOK
    PROVE  /\ \A k \in Has(binary) : k \in Key /\ binary[k].lastModifiedTime \in Nat
           /\ \A k \in Has(live) : k \in Key /\ live[k].lastModifiedTime \in Nat
           /\ \A k \in Has(disk) : k \in Key /\ disk[k].mtime \in Nat
           /\ \A u \in Url : Dated(u) => copy[u].date \in Nat
           /\ \A u \in Url : \A i \in DOMAIN Candidates[u] : Candidates[u][i] \in Key
<1>1. \A u \in Url : Candidates[u] \in Seq(Key)
  BY SettingIsTyped
<1> QED
  BY <1>1 DEF TypeOK, Has, Dated, Asset, File, Copy

\* What an edit does, where dates tell: it leaves a file of a later second.
Advances ==
    /\ clock <= clock'
    /\ \A k \in Key :
          \/ disk'[k] \in {disk[k], Nil}
          \/ disk'[k].mtime = clock' /\ Seconds(clock) < Seconds(clock')

LEMMA AdvancesInOrder ==
    ASSUME TypeOK, TypeOK', InOrder, Advances, UNCHANGED <<setting, binary, live, copy>>
    PROVE  InOrder'
<1>1. clock \in Nat /\ clock' \in Nat
  BY SettingIsTyped DEF TypeOK
<1>2. TicksPerSecond' = TicksPerSecond /\ Candidates' = Candidates
  BY DEF TicksPerSecond, Candidates
<1>3. /\ Seconds(clock) \in Nat /\ Seconds(clock') \in Nat
      /\ Seconds(clock) <= Seconds(clock') /\ Seconds(clock)' = Seconds(clock')
  BY <1>1, <1>2, SecondsPass DEF Advances, Seconds
<1>4. ASSUME NEW k \in Key, NEW bytes, NEW time \in Nat, FollowsDisk(k, bytes, time)
      PROVE  time <= Seconds(clock)' /\ (disk'[k] # Nil => NoNewer(bytes, time, OnDisk(k)'))
  <2>1. time <= Seconds(clock)
    BY <1>4 DEF FollowsDisk
  <2>2. CASE disk'[k] = disk[k]
    <3>1. OnDisk(k)' = OnDisk(k)
      BY <1>2, <2>2 DEF OnDisk, Seconds
    <3> QED
      BY <1>3, <1>4, <2>1, <2>2, <3>1 DEF FollowsDisk
  <2>3. CASE disk'[k] = Nil
    BY <1>3, <2>1, <2>3
  <2>4. CASE disk'[k].mtime = clock' /\ Seconds(clock) < Seconds(clock')
    <3>1. OnDisk(k)'.lastModifiedTime = Seconds(clock')
      BY <1>2, <2>4 DEF OnDisk, Seconds
    <3> HIDE DEF OnDisk
    <3> QED
      BY <1>3, <2>1, <2>4, <3>1 DEF NoNewer
  <2> QED
    BY <2>2, <2>3, <2>4 DEF Advances
<1>5. DiskIsPast'
  BY <1>1 DEF InOrder, DiskIsPast, Advances, Has, TypeOK, File
<1>6. BinaryFollows'
  BY <1>4, TimesAreTyped DEF InOrder, BinaryFollows, FollowsDisk, Has
<1>7. LiveFollows'
  BY <1>4, TimesAreTyped DEF InOrder, LiveFollows, FollowsBinary, FollowsDisk, Has
<1>8. CopiesFollow'
  BY <1>2, <1>4, TimesAreTyped
     DEF InOrder, CopiesFollow, FollowsLive, FollowsBinary, FollowsDisk, Dated
<1> QED
  BY <1>5, <1>6, <1>7, <1>8 DEF InOrder

\* Where something is edited, nothing is being built or the setting allows it.
LEMMA DevelopKeeps == IInv /\ UNCHANGED setting /\ Develop => IInv'
<1> SUFFICES ASSUME IInv, UNCHANGED setting, Develop PROVE IInv'
  OBVIOUS
<1> USE DEF IInv
<1>0. /\ UNCHANGED <<phase, todo, draft, manifest, binary, live, copy>> /\ reply' = Nil
      /\ MayEdit
      /\ disk' \in [Key -> File \cup {Nil}] /\ clock' \in 0 .. setting.maxTime
      /\ DatesTell(setting) => Advances
  <2>1. CASE \E k \in Key, t \in EditTimes :
                \E b \in Versions[k], m \in Mtimes(t) : Edit(k, b, t, m)
    <3>1. PICK k \in Key, t \in EditTimes :
              \E b \in Versions[k], m \in Mtimes(t) : Edit(k, b, t, m)
      BY <2>1
    <3>2. PICK b \in Versions[k], m \in Mtimes(t) : Edit(k, b, t, m)
      BY <3>1
    <3>3. t \in Nat /\ t \in 0 .. setting.maxTime
      BY SettingIsTyped DEF EditTimes, TypeOK
    <3>4. m \in Nat /\ b \in Bytes
      BY <3>3, SettingIsTyped DEF Mtimes
    <3>5. [bytes |-> b, mtime |-> m] \in File
      BY <3>4 DEF File
    <3>6. DatesTell(setting) => m = t /\ t >= clock + TicksPerSecond
      BY <3>3, SettingIsTyped DEF DatesTell, Mtimes, EditTimes, TicksPerSecond, TypeOK
    <3>7. ASSUME DatesTell(setting) PROVE Advances
      <4>1. clock' = m /\ disk' = [disk EXCEPT ![k] = [bytes |-> b, mtime |-> m]]
        BY <3>2, <3>6, <3>7 DEF Edit
      <4>2. Seconds(clock) < Seconds(m) /\ clock <= m
        BY <3>4, <3>6, <3>7, SecondsPass, SettingIsTyped DEF TypeOK
      <4>3. disk'[k].mtime = clock' /\ \A l \in Key : l = k \/ disk'[l] = disk[l]
        BY <4>1 DEF TypeOK
      <4> QED
        BY <4>1, <4>2, <4>3 DEF Advances
    <3> QED
      BY <3>2, <3>3, <3>5, <3>7 DEF Edit, buildVars, TypeOK
  <2>2. CASE \E k \in Key : Unlink(k)
    BY <2>2 DEF Unlink, buildVars, TypeOK, Advances
  <2> QED
    BY <2>1, <2>2 DEF Develop
<1>1. TypeOK'
  BY <1>0 DEF TypeOK
<1>2. DraftIsPartial'
  BY <1>0 DEF DraftIsPartial, Has
<1>3. ASSUME setting.upToDate PROVE (DraftIsFresh /\ BinaryIsTagged /\ EtagNamesBytes)'
  <2>1. phase = "idle"
    BY <1>0, <1>3 DEF MayEdit
  <2> QED
    BY <1>0, <1>3, <2>1 DEF DraftIsFresh, BinaryIsTagged, EtagNamesBytes, Has
<1>4. ShownIsCurrent' /\ (CopyKeepsItsTag => CopyKeepsItsTag')
  BY <1>0 DEF ShownIsCurrent, CopyKeepsItsTag
<1>5. DatesTell(setting) => InOrder'
  BY <1>0, <1>1, AdvancesInOrder
<1> QED
  BY <1>1, <1>2, <1>3, <1>4, <1>5, SettingsStay

\* A build leaves the directory, what is deployed and the clients alone, so that
\* only the draft, the manifest and the binary are at stake.
LEMMA BuildIsApart ==
    ASSUME IInv, UNCHANGED <<setting, clock, disk, live, copy>>, reply' = Nil,
           phase' \in {"idle", "manifest", "snapshot"}, todo' \subseteq Key,
           draft' \in [Key -> Meta \cup Asset \cup {Nil}],
           manifest' \in [Key -> Meta \cup {Nil}], binary' \in [Key -> Asset \cup {Nil}],
           DraftIsPartial', setting.upToDate => DraftIsFresh' /\ BinaryIsTagged',
           DatesTell(setting) => binary' = binary \/ InOrder'
    PROVE  IInv'
<1> USE DEF IInv
<1>1. TypeOK' /\ (EtagNamesBytes => EtagNamesBytes')
  BY DEF TypeOK, EtagNamesBytes, Has
<1>2. ShownIsCurrent' /\ (CopyKeepsItsTag => CopyKeepsItsTag')
  BY DEF ShownIsCurrent, CopyKeepsItsTag
<1>3. DatesTell(setting) => InOrder'
  BY OrderStays
<1> QED
  BY <1>1, <1>2, <1>3, SettingsStay

LEMMA ScanKeeps == IInv /\ UNCHANGED setting /\ Scan => IInv'
<1> SUFFICES ASSUME IInv, UNCHANGED setting, Scan PROVE IInv'
  OBVIOUS
<1>1. Nothing \in [Key -> {Nil}] /\ Has(draft') = {}
  BY DEF Scan, Nothing, Has
<1>2. DraftIsPartial' /\ DraftIsFresh' /\ (BinaryIsTagged => BinaryIsTagged')
  BY <1>1 DEF Scan, DraftIsPartial, DraftIsFresh, BinaryIsTagged, Has
<1> QED
  BY <1>1, <1>2, BuildIsApart DEF Scan, IInv, TypeOK, Has

LEMMA RecordKeeps ==
    ASSUME IInv, UNCHANGED setting, NEW k \in Key, Record(k)
    PROVE  IInv'
<1> USE DEF IInv
<1>1. /\ FileInfo(k) \in Meta /\ FileInfo(k).hash = disk[k].bytes
      /\ FileInfo(k).lastModifiedTime = Seconds(disk[k].mtime)
  BY FileInfoIsTyped DEF Record
<1>2. draft' \in [Key -> Meta \cup {Nil}]
  BY <1>1 DEF Record, DraftIsPartial
<1>3. DraftIsPartial'
  BY <1>2 DEF Record, DraftIsPartial
<1>4. DraftIsFresh => DraftIsFresh'
  <2>1. UNCHANGED <<setting, disk>> /\ phase = "manifest" /\ phase' = phase
        /\ disk[k] # Nil /\ draft' = [draft EXCEPT ![k] = FileInfo(k)]
    BY DEF Record
  <2>2. \A l \in Key : draft'[l] = IF l = k THEN FileInfo(k) ELSE draft[l]
    BY <2>1 DEF TypeOK
  <2>3. \A l \in Has(draft') : l \in Key /\ (l # k => l \in Has(draft))
    BY <2>2 DEF Has
  <2>4. \A l \in Key : Seconds(disk[l].mtime)' = Seconds(disk[l].mtime)
    BY <2>1 DEF Seconds, TicksPerSecond
  <2>5. ASSUME DraftIsFresh, NEW l \in Has(draft')
        PROVE  /\ disk[l] # Nil
               /\ draft'[l].hash = disk[l].bytes
               /\ draft'[l].lastModifiedTime = Seconds(disk[l].mtime)
    <3>1. CASE l = k
      BY <1>1, <2>1, <2>2, <2>3, <3>1
    <3>2. CASE l # k
      BY <2>1, <2>2, <2>3, <2>5, <3>2 DEF DraftIsFresh
    <3> QED
      BY <3>1, <3>2
  <2> QED
    BY <2>1, <2>3, <2>4, <2>5 DEF DraftIsFresh, Has
<1>5. BinaryIsTagged => BinaryIsTagged'
  BY DEF Record, BinaryIsTagged, Has
<1> QED
  BY <1>2, <1>3, <1>4, <1>5, BuildIsApart DEF Record, TypeOK

LEMMA WriteManifestKeeps == IInv /\ UNCHANGED setting /\ WriteManifest => IInv'
<1> SUFFICES ASSUME IInv, UNCHANGED setting, WriteManifest PROVE IInv'
  OBVIOUS
<1> USE DEF IInv
<1>1. draft \in [Key -> Meta \cup {Nil}]
  BY DEF WriteManifest, DraftIsPartial
<1>2. BinaryIsTagged => BinaryIsTagged'
  BY DEF WriteManifest, BinaryIsTagged, Has
<1>3. CASE phase' = "snapshot" /\ todo' = Has(draft) /\ UNCHANGED draft
  <2>1. DraftIsPartial'
    BY <1>1, <1>3 DEF DraftIsPartial, Has
  <2>2. DraftIsFresh => DraftIsFresh'
    BY <1>3 DEF WriteManifest, DraftIsFresh, Has, Seconds, TicksPerSecond
  <2> QED
    BY <1>1, <1>2, <1>3, <2>1, <2>2, BuildIsApart DEF WriteManifest, TypeOK, Has
<1>4. CASE phase' = "idle" /\ todo' = {} /\ draft' = Nothing
  <2>1. DraftIsPartial' /\ DraftIsFresh' /\ Nothing \in [Key -> {Nil}]
    BY <1>4 DEF DraftIsPartial, DraftIsFresh, Nothing
  <2> QED
    BY <1>1, <1>2, <1>4, <2>1, BuildIsApart DEF WriteManifest, TypeOK
<1> QED
  BY <1>3, <1>4 DEF WriteManifest

LEMMA StartSnapshotKeeps == IInv /\ UNCHANGED setting /\ StartSnapshot => IInv'
<1> SUFFICES ASSUME IInv, UNCHANGED setting, StartSnapshot PROVE IInv'
  OBVIOUS
<1> USE DEF IInv
<1>1. DraftIsPartial'
  BY DEF StartSnapshot, DraftIsPartial, TypeOK, Has
<1>2. ASSUME setting.upToDate PROVE DraftIsFresh'
  <2>1. \A k \in Has(manifest) : disk[k] # Nil /\ manifest[k] = FileInfo(k)
    BY <1>2 DEF StartSnapshot, ManifestMatches, Has
  <2>2. \A k \in Has(manifest) :
            /\ disk[k] # Nil /\ manifest[k].hash = disk[k].bytes
            /\ manifest[k].lastModifiedTime = Seconds(disk[k].mtime)
    BY <2>1, FileInfoIsTyped DEF Has
  <2> QED
    BY <2>2 DEF StartSnapshot, DraftIsFresh, Has, Seconds, TicksPerSecond
<1>3. BinaryIsTagged => BinaryIsTagged'
  BY DEF StartSnapshot, BinaryIsTagged, Has
<1> QED
  BY <1>1, <1>2, <1>3, BuildIsApart DEF StartSnapshot, TypeOK, Has

LEMMA InlineKeeps ==
    ASSUME IInv, UNCHANGED setting, NEW k \in Key, Inline(k)
    PROVE  IInv'
<1> USE DEF IInv
<1> DEFINE inlined == [source |-> disk[k].bytes, hash |-> draft[k].hash,
                       lastModifiedTime |-> draft[k].lastModifiedTime]
<1>1. k \in Has(draft) /\ draft[k] \in Meta
  BY DEF Inline, DraftIsPartial
<1>2. inlined \in Asset
  BY <1>1 DEF Inline, TypeOK, File, Meta, Asset
<1>3. /\ draft' \in [Key -> Meta \cup Asset \cup {Nil}]
      /\ draft'[k] = inlined /\ \A l \in Key \ {k} : draft'[l] = draft[l]
  BY <1>2 DEF Inline, TypeOK
<1>4. \A l \in todo' : l # k /\ l \in todo /\ l \in Has(draft')
  BY <1>3 DEF Inline, DraftIsPartial, Has
<1>5. DraftIsPartial'
  BY <1>2, <1>3, <1>4 DEF Inline, DraftIsPartial, Has
<1>6. DraftIsFresh => DraftIsFresh'
  BY <1>1, <1>3, <1>4 DEF Inline, DraftIsFresh, Has, Seconds, TicksPerSecond
<1>7. BinaryIsTagged => BinaryIsTagged'
  BY DEF Inline, BinaryIsTagged, Has
<1> QED
  BY <1>3, <1>5, <1>6, <1>7, BuildIsApart DEF Inline, TypeOK

\* A binary built from the files as they are is no older than one before it.
LEMMA SnapshotInOrder ==
    ASSUME TypeOK, DraftIsFresh, InOrder, UNCHANGED setting, Snapshot
    PROVE  InOrder'
<1>1. UNCHANGED <<setting, clock, disk, live, copy>> /\ binary' = draft
  BY DEF Snapshot
<1>2. TicksPerSecond' = TicksPerSecond /\ Candidates' = Candidates
  BY <1>1 DEF TicksPerSecond, Candidates
<1>3. \A k \in Key : OnDisk(k)' = OnDisk(k)
  BY <1>1, <1>2 DEF OnDisk, Seconds
<1>4. Seconds(clock)' = Seconds(clock)
  BY <1>1, <1>2 DEF Seconds
<1>5. \A k \in Has(draft) :
          /\ k \in Key /\ disk[k] # Nil
          /\ draft[k].source = OnDisk(k).source
          /\ draft[k].lastModifiedTime = OnDisk(k).lastModifiedTime
          /\ OnDisk(k).lastModifiedTime <= Seconds(clock)
          /\ OnDisk(k).lastModifiedTime \in Nat
  <2>1. ASSUME NEW k \in Has(draft)
        PROVE  /\ k \in Key /\ disk[k] # Nil
               /\ draft[k].source = disk[k].bytes
               /\ draft[k].lastModifiedTime = Seconds(disk[k].mtime)
               /\ Seconds(disk[k].mtime) <= Seconds(clock)
               /\ Seconds(disk[k].mtime) \in Nat
    <3>1. /\ k \in Key /\ disk[k] # Nil
          /\ draft[k].source = disk[k].bytes
          /\ draft[k].lastModifiedTime = Seconds(disk[k].mtime)
      BY DEF Snapshot, DraftIsFresh, Has
    <3>2. clock \in Nat /\ disk[k].mtime \in Nat /\ disk[k].mtime <= clock
      BY <3>1, TimesAreTyped, SettingIsTyped DEF InOrder, DiskIsPast, Has, TypeOK
    <3> QED
      BY <3>1, <3>2, SecondsPass
  <2> QED
    BY <2>1 DEF OnDisk
<1> HIDE DEF OnDisk
<1>6. DiskIsPast'
  BY <1>1 DEF InOrder, DiskIsPast, Has
<1>7. BinaryFollows'
  BY <1>1, <1>3, <1>4, <1>5 DEF BinaryFollows, FollowsDisk, NoNewer, Has
<1>8. ASSUME NEW k \in Key, NEW bytes, NEW time \in Nat, FollowsDisk(k, bytes, time)
      PROVE  time <= Seconds(clock) /\ (disk[k] # Nil => NoNewer(bytes, time, OnDisk(k)))
                 /\ (draft[k] # Nil => NoNewer(bytes, time, draft[k]))
  BY <1>5, <1>8 DEF FollowsDisk, NoNewer, Has
<1>9. LiveFollows'
  BY <1>1, <1>3, <1>4, <1>8, TimesAreTyped
     DEF InOrder, LiveFollows, FollowsBinary, FollowsDisk, Has
<1>10. CopiesFollow'
  BY <1>1, <1>2, <1>3, <1>4, <1>8, TimesAreTyped
     DEF InOrder, CopiesFollow, FollowsLive, FollowsBinary, FollowsDisk, Dated
<1> QED
  BY <1>6, <1>7, <1>9, <1>10 DEF InOrder

LEMMA SnapshotKeeps == IInv /\ UNCHANGED setting /\ Snapshot => IInv'
<1> SUFFICES ASSUME IInv, UNCHANGED setting, Snapshot PROVE IInv'
  OBVIOUS
<1> USE DEF IInv
<1>1. binary' \in [Key -> Asset \cup {Nil}]
  BY DEF Snapshot, DraftIsPartial, TypeOK, Has
<1>2. DraftIsFresh => BinaryIsTagged'
  BY DEF Snapshot, DraftIsFresh, BinaryIsTagged, Has
<1>3. DraftIsPartial' /\ DraftIsFresh' /\ Nothing \in [Key -> {Nil}]
  BY DEF Snapshot, DraftIsPartial, DraftIsFresh, Nothing
<1>4. ASSUME DatesTell(setting) PROVE InOrder'
  BY <1>4, SnapshotInOrder DEF DatesTell
<1> QED
  BY <1>1, <1>2, <1>3, <1>4, BuildIsApart DEF Snapshot, TypeOK

LEMMA BuildFailsKeeps == IInv /\ UNCHANGED setting /\ BuildFails => IInv'
<1> SUFFICES ASSUME IInv, UNCHANGED setting, BuildFails PROVE IInv'
  OBVIOUS
<1> USE DEF IInv
<1>1. BinaryIsTagged => BinaryIsTagged'
  BY DEF BuildFails, BinaryIsTagged, Has
<1>2. DraftIsPartial' /\ DraftIsFresh' /\ Nothing \in [Key -> {Nil}]
  BY DEF BuildFails, DraftIsPartial, DraftIsFresh, Nothing
<1> QED
  BY <1>1, <1>2, BuildIsApart DEF BuildFails, TypeOK

\* What is deployed follows what was built.
LEMMA DeployInOrder ==
    ASSUME TypeOK, InOrder, UNCHANGED setting, Deploy
    PROVE  InOrder'
<1>1. UNCHANGED <<setting, clock, disk, binary, copy>> /\ live' = binary
  BY DEF Deploy, buildVars
<1>2. TicksPerSecond' = TicksPerSecond /\ Candidates' = Candidates
  BY <1>1 DEF TicksPerSecond, Candidates
<1>3. \A k \in Key : OnDisk(k)' = OnDisk(k)
  BY <1>1, <1>2 DEF OnDisk, Seconds
<1>4. Seconds(clock)' = Seconds(clock)
  BY <1>1, <1>2 DEF Seconds
<1>5. \A k \in Has(binary) : k \in Key /\ binary[k].lastModifiedTime \in Nat
  BY TimesAreTyped
<1>6. DiskIsPast' /\ BinaryFollows'
  BY <1>1, <1>3, <1>4 DEF InOrder, DiskIsPast, BinaryFollows, FollowsDisk, Has
<1>7. LiveFollows'
  BY <1>1, <1>3, <1>4, <1>5
     DEF InOrder, BinaryFollows, LiveFollows, FollowsBinary, FollowsDisk, NoNewer, Has
<1>8. CopiesFollow'
  BY <1>1, <1>2, <1>3, <1>4, TimesAreTyped
     DEF InOrder, CopiesFollow, FollowsLive, FollowsBinary, FollowsDisk, Dated
<1> QED
  BY <1>6, <1>7, <1>8 DEF InOrder

LEMMA DeployKeeps == IInv /\ UNCHANGED setting /\ Deploy => IInv'
<1> SUFFICES ASSUME IInv, UNCHANGED setting, Deploy PROVE IInv'
  OBVIOUS
<1> USE DEF IInv, Deploy, buildVars
<1>1. TypeOK' /\ DraftIsPartial'
  BY DEF TypeOK, DraftIsPartial, Has
<1>2. DraftIsFresh => DraftIsFresh'
  BY DEF DraftIsFresh, Has, Seconds, TicksPerSecond
<1>3. BinaryIsTagged => BinaryIsTagged' /\ EtagNamesBytes'
  BY DEF BinaryIsTagged, EtagNamesBytes, Has
<1>4. ShownIsCurrent' /\ (CopyKeepsItsTag => CopyKeepsItsTag')
  BY DEF ShownIsCurrent, CopyKeepsItsTag
<1>5. InOrder => InOrder'
  BY DeployInOrder
<1> QED
  BY <1>1, <1>2, <1>3, <1>4, <1>5, SettingsStay

-----------------------------------------------------------------------------
(* Serving *)

\* Requests change what the clients have, and nothing of the site.
LEMMA ServingIsApart ==
    ASSUME IInv, UNCHANGED <<setting, clock, disk, buildVars, live>>,
           copy' \in [Url -> Copy \cup {Nil}], reply' \in Reply \cup {Nil},
           DatesTell(setting) => CopiesFollow',
           Validates(setting) => CopyKeepsItsTag' /\ ShownIsCurrent'
    PROVE  IInv'
<1> USE DEF IInv, buildVars
<1>1. TypeOK' /\ DraftIsPartial'
  BY DEF TypeOK, DraftIsPartial, Has
<1>2. (DraftIsFresh => DraftIsFresh') /\ (BinaryIsTagged => BinaryIsTagged')
      /\ (EtagNamesBytes => EtagNamesBytes')
  BY DEF DraftIsFresh, BinaryIsTagged, EtagNamesBytes, Has, Seconds, TicksPerSecond
<1>3. InOrder => DiskIsPast' /\ BinaryFollows' /\ LiveFollows'
  BY DEF InOrder, DiskIsPast, BinaryFollows, LiveFollows, FollowsDisk, FollowsBinary, OnDisk,
         NoNewer, Has, Seconds, TicksPerSecond
<1> QED
  BY <1>1, <1>2, <1>3, SettingsStay DEF InOrder

\* A copy with a date no older than that of the asset is of the same version.
LEMMA DatesDecide ==
    ASSUME TypeOK, CopiesFollow, NEW u \in Url, NEW i \in DOMAIN Candidates[u], Dated(u),
           live[Candidates[u][i]] # Nil,
           live[Candidates[u][i]].lastModifiedTime <= copy[u].date
    PROVE  copy[u].body = live[Candidates[u][i]].source
<1> DEFINE k == Candidates[u][i]
<1>1. k \in Key /\ copy[u].date \in Nat
  BY TimesAreTyped
<1>2. NoNewer(copy[u].body, copy[u].date, live[k])
  BY DEF CopiesFollow, FollowsLive
<1>3. live[k].lastModifiedTime \in Nat
  BY <1>1, TimesAreTyped DEF Has
<1> HIDE DEF k
<1>4. copy[u].date = live[k].lastModifiedTime
  BY <1>1, <1>2, <1>3 DEF NoNewer, k
<1> QED
  BY <1>2, <1>4 DEF NoNewer, k

\* A copy made of what is deployed, or kept, follows it.
LEMMA CopyInOrder ==
    ASSUME TypeOK, InOrder, UNCHANGED <<setting, clock, disk, buildVars, live>>,
           NEW u \in Url, NEW k \in Key, live[k] # Nil,
           \A i \in DOMAIN Candidates[u] : Candidates[u][i] = k,
           \A v \in Url \ {u} : copy'[v] = copy[v],
           \/ copy'[u] = Nil
           \/ copy[u] # Nil /\ copy'[u].body = copy[u].body /\ copy'[u].date = copy[u].date
           \/ copy'[u].body = live[k].source /\ copy'[u].date = LastModified(k)
    PROVE  CopiesFollow'
<1>1. /\ TicksPerSecond' = TicksPerSecond /\ Candidates' = Candidates
      /\ UNCHANGED <<clock, disk, binary, live>>
  BY DEF TicksPerSecond, Candidates, buildVars
<1>2. \A l \in Key : OnDisk(l)' = OnDisk(l)
  BY <1>1 DEF OnDisk, Seconds
<1>3. Seconds(clock)' = Seconds(clock)
  BY <1>1 DEF Seconds
<1>4. live[k].lastModifiedTime \in Nat /\ k \in Has(live)
  BY TimesAreTyped DEF Has
<1>5. FollowsLive(k, live[k].source, live[k].lastModifiedTime)
  BY <1>4 DEF InOrder, LiveFollows, FollowsLive, NoNewer
<1>6. ASSUME NEW v \in Url, Dated(v)', NEW i \in DOMAIN Candidates[v]
      PROVE  FollowsLive(Candidates[v][i], copy'[v].body, copy'[v].date)
  <2>1. CASE v # u
    BY <1>6, <2>1 DEF Dated, InOrder, CopiesFollow
  <2>2. CASE v = u /\ copy[u] # Nil /\ copy'[u].body = copy[u].body
                  /\ copy'[u].date = copy[u].date
    BY <1>6, <2>2 DEF Dated, InOrder, CopiesFollow
  <2>3. CASE v = u /\ copy'[u].body = live[k].source /\ copy'[u].date = LastModified(k)
    <3>1. copy'[u].date = live[k].lastModifiedTime /\ Candidates[v][i] = k
      BY <1>6, <2>3 DEF Dated, LastModified
    <3> QED
      BY <1>5, <2>3, <3>1
  <2> QED
    BY <1>6, <2>1, <2>2, <2>3 DEF Dated
<1> QED
  BY <1>1, <1>2, <1>3, <1>6, TimesAreTyped
     DEF CopiesFollow, FollowsLive, FollowsBinary, FollowsDisk

\* serveAsset: a 304 presupposes a copy, and one with the tag of the asset where
\* the date does not decide.
LEMMA ServeAssetKeeps ==
    ASSUME IInv, UNCHANGED setting, NEW u \in Url, NEW k \in Key, live[k] # Nil,
           NEW cond \in setting.conditions, NEW status \in {200, 404}, NEW cc,
           DatesTell(setting) =>
               \E j \in DOMAIN Candidates[u] :
                   Candidates[u][j] = k /\ \A i \in DOMAIN Candidates[u] : Candidates[u][i] = k,
           ServeAsset(u, k, cond, status, cc)
    PROVE  IInv'
<1> USE DEF IInv
<1> DEFINE notModified == NotModified(k, IfNoneMatch(u, cond), IfModifiedSince(u, cond))
           sent == IF notModified THEN 304 ELSE status
           after == CopyAfter(u, k, sent, cc)
           shown == IF notModified THEN copy[u].body ELSE live[k].source
<1>1. /\ live[k].source \in Bytes /\ live[k].hash \in Bytes /\ LastModified(k) \in Nat \cup {Nil}
      /\ copy[u] # Nil => copy[u] \in Copy
  BY DEF TypeOK, Asset, LastModified
<1>2. notModified => copy[u] # Nil
  BY DEF NotModified, IfNoneMatch, IfModifiedSince
<1>3. shown \in Bytes
  BY <1>1, <1>2 DEF Copy
<1>4. \/ after = Nil
      \/ notModified /\ after = [copy[u] EXCEPT !.etag = live[k].hash]
      \/ ~notModified /\ after = [body |-> live[k].source, etag |-> live[k].hash,
                                  date |-> LastModified(k)]
  <2>1. CASE cc = "no-store"
    BY <2>1 DEF CopyAfter
  <2>2. CASE cc # "no-store" /\ notModified
    <3>1. sent = 304
      BY <2>2
    <3> HIDE DEF sent
    <3>2. after = [copy[u] EXCEPT !.etag = live[k].hash]
      BY <1>1, <1>2, <2>2, <3>1 DEF CopyAfter, Copy
    <3> QED
      BY <2>2, <3>2
  <2>3. CASE cc # "no-store" /\ ~notModified
    <3>1. sent # 304
      BY <2>3
    <3> HIDE DEF sent
    <3>2. after = [body |-> live[k].source, etag |-> live[k].hash, date |-> LastModified(k)]
      BY <2>3, <3>1, Zenon DEF CopyAfter
    <3> QED
      BY <2>3, <3>2
  <2> QED
    BY <2>1, <2>2, <2>3
<1>5. after \in Copy \cup {Nil}
  BY <1>1, <1>2, <1>4 DEF Copy
<1>6. copy' = [copy EXCEPT ![u] = after] /\ reply' = [asset |-> k, shown |-> shown]
  BY DEF ServeAsset
<1>7. copy' \in [Url -> Copy \cup {Nil}] /\ reply' \in Reply \cup {Nil}
  BY <1>3, <1>5, <1>6 DEF TypeOK, Reply
<1>8. ASSUME Validates(setting)
      PROVE  CopyKeepsItsTag' /\ ShownIsCurrent'
  <2>1. live[k].hash = live[k].source
    BY <1>8 DEF Validates, EtagNamesBytes, Has
  <2>2. ASSUME notModified, cond # "since" PROVE copy[u].etag = live[k].hash
    <3>1. cond \in {"none", "etag", "both"}
      BY <2>2, SettingIsTyped DEF Setting
    <3>2. cond # "none"
      BY <2>2 DEF NotModified, IfNoneMatch, IfModifiedSince
    <3>3. IfNoneMatch(u, cond) = copy[u].etag /\ copy[u].etag \in Bytes
      BY <1>1, <1>2, <2>2, <3>1, <3>2 DEF IfNoneMatch, Copy
    <3> QED
      BY <2>2, <3>3, StaticSiteAssumption DEF NotModified
  <2>3. notModified => copy[u].body = live[k].source
    <3>1. CASE cond # "since"
      BY <1>2, <1>8, <2>1, <2>2, <3>1 DEF CopyKeepsItsTag
    <3>2. ASSUME cond = "since", notModified PROVE copy[u].body = live[k].source
      <4>1. DatesTell(setting)
        BY <1>8, <3>2 DEF Validates
      <4>2. PICK j \in DOMAIN Candidates[u] : Candidates[u][j] = k
        BY <4>1
      <4>3. Dated(u) /\ live[k].lastModifiedTime <= copy[u].date
        BY <1>2, <3>2 DEF NotModified, IfNoneMatch, IfModifiedSince, Dated
      <4> QED
        BY <4>1, <4>2, <4>3, DatesDecide DEF InOrder
    <3> QED
      BY <3>1, <3>2
  <2>4. after # Nil => after.etag = after.body
    BY <1>1, <1>2, <1>4, <2>1, <2>3 DEF Copy
  <2>5. CopyKeepsItsTag'
    BY <1>6, <1>8, <2>4 DEF CopyKeepsItsTag, TypeOK
  <2>6. ShownIsCurrent'
    BY <1>6, <2>3 DEF ShownIsCurrent, ServeAsset
  <2> QED
    BY <2>5, <2>6
<1>9. UNCHANGED <<clock, disk, buildVars, live>>
  BY DEF ServeAsset
<1>10. ASSUME DatesTell(setting) PROVE CopiesFollow'
  <2>1. copy'[u] = after /\ \A v \in Url \ {u} : copy'[v] = copy[v]
    BY <1>6 DEF TypeOK
  <2>2. \/ after = Nil
        \/ copy[u] # Nil /\ after.body = copy[u].body /\ after.date = copy[u].date
        \/ after.body = live[k].source /\ after.date = LastModified(k)
    BY <1>1, <1>2, <1>4 DEF Copy
  <2> HIDE DEF after
  <2> QED
    BY <1>9, <1>10, <2>1, <2>2, CopyInOrder
<1> QED
  BY <1>7, <1>8, <1>9, <1>10, ServingIsApart

LEMMA ServeKeeps == IInv /\ UNCHANGED setting /\ Serve => IInv'
<1> SUFFICES ASSUME IInv, UNCHANGED setting, NEW u \in Url, NEW cond \in setting.conditions,
                    ServeMatch(u, cond)
                       \/ \E acceptsHtml \in BOOLEAN :
                             \/ ServeSpa(u, cond, acceptsHtml)
                             \/ ServeNotFound(u, cond, acceptsHtml)
                             \/ ServeNothing(u, acceptsHtml)
             PROVE  IInv'
  BY DEF Serve
<1>1. CASE ServeMatch(u, cond)
  <2>1. PICK k \in MatchingAsset(u) :
            ServeAsset(u, k, cond, 200, IF u \in Extended THEN "extended" ELSE "none")
    BY <1>1 DEF ServeMatch
  <2>2. Candidates[u] \in Seq(Key)
    BY SettingIsTyped DEF IInv
  <2>3. k \in Key /\ live[k] # Nil
    BY <2>2 DEF MatchingAsset, MatchesOf
  <2>4. \E j \in DOMAIN Candidates[u] : Candidates[u][j] = k
    BY DEF MatchingAsset, MatchesOf
  <2>5. DatesTell(setting) =>
            \A i, j \in DOMAIN Candidates[u] : Candidates[u][i] = Candidates[u][j]
    BY DEF DatesTell, Candidates
  <2> QED
    BY <2>1, <2>3, <2>4, <2>5, ServeAssetKeeps
<1>2. ASSUME NEW acceptsHtml \in BOOLEAN, ServeSpa(u, cond, acceptsHtml) PROVE IInv'
  <2>1. spaEntrypoint \in Key /\ live[spaEntrypoint] # Nil
    BY <1>2, SettingIsTyped DEF ServeSpa, Fallback, IInv
  <2>2. ~DatesTell(setting)
    BY <1>2 DEF ServeSpa, Fallback, DatesTell, spaEntrypoint
  <2> QED
    BY <1>2, <2>1, <2>2, ServeAssetKeeps DEF ServeSpa
<1>3. ASSUME NEW acceptsHtml \in BOOLEAN, ServeNotFound(u, cond, acceptsHtml) PROVE IInv'
  <2>1. notFoundPage \in Key /\ live[notFoundPage] # Nil
    BY <1>3, SettingIsTyped DEF ServeNotFound, Fallback, IInv
  <2>2. ~DatesTell(setting)
    BY <1>3 DEF ServeNotFound, Fallback, DatesTell, notFoundPage
  <2> QED
    BY <1>3, <2>1, <2>2, ServeAssetKeeps DEF ServeNotFound
<1>4. ASSUME NEW acceptsHtml \in BOOLEAN, ServeNothing(u, acceptsHtml) PROVE IInv'
  <2>1. copy' \in [Url -> Copy \cup {Nil}] /\ (CopyKeepsItsTag => CopyKeepsItsTag')
    BY <1>4 DEF ServeNothing, CopyKeepsItsTag, IInv, TypeOK
  <2>2. reply' = Nil /\ ShownIsCurrent'
    BY <1>4 DEF ServeNothing, ShownIsCurrent
  <2>3. UNCHANGED <<clock, disk, buildVars, live>>
    BY <1>4 DEF ServeNothing
  <2>4. ASSUME InOrder PROVE CopiesFollow'
    <3>1. copy'[u] = Nil /\ \A v \in Url \ {u} : copy'[v] = copy[v]
      BY <1>4 DEF ServeNothing, IInv, TypeOK
    <3>2. /\ TicksPerSecond' = TicksPerSecond /\ Candidates' = Candidates
          /\ UNCHANGED <<clock, disk, binary, live>>
      BY <2>3 DEF TicksPerSecond, Candidates, buildVars
    <3> QED
      BY <2>4, <3>1, <3>2 DEF InOrder, CopiesFollow, Dated, FollowsLive, FollowsBinary,
                              FollowsDisk, NoNewer, OnDisk, Seconds
  <2> QED
    BY <2>1, <2>2, <2>3, <2>4, ServingIsApart DEF IInv
<1> QED
  BY <1>1, <1>2, <1>3, <1>4

-----------------------------------------------------------------------------
LEMMA NextIInv == IInv /\ [Next]_vars => IInv'
<1> SUFFICES ASSUME IInv, [Next]_vars PROVE IInv'
  OBVIOUS
<1>1. CASE UNCHANGED setting /\ Develop
  BY <1>1, DevelopKeeps
<1>2. CASE UNCHANGED setting /\ Build
  BY <1>2, ScanKeeps, WriteManifestKeeps, StartSnapshotKeeps, SnapshotKeeps, BuildFailsKeeps,
     RecordKeeps, InlineKeeps DEF Build
<1>3. CASE UNCHANGED setting /\ Deploy
  BY <1>3, DeployKeeps
<1>4. CASE UNCHANGED setting /\ Serve
  BY <1>4, ServeKeeps
<1>5. CASE UNCHANGED vars
  <2>1. DatesTell(setting) => InOrder'
    BY <1>5, OrderStays DEF vars, buildVars, IInv
  <2>2. (TypeOK /\ DraftIsPartial)' /\ (DraftIsFresh => DraftIsFresh')
    BY <1>5 DEF vars, buildVars, IInv, TypeOK, DraftIsPartial, DraftIsFresh, Has, Seconds,
                TicksPerSecond
  <2>3. /\ BinaryIsTagged => BinaryIsTagged'
        /\ EtagNamesBytes => EtagNamesBytes'
        /\ CopyKeepsItsTag => CopyKeepsItsTag'
        /\ ShownIsCurrent => ShownIsCurrent'
    BY <1>5 DEF vars, buildVars, BinaryIsTagged, EtagNamesBytes, CopyKeepsItsTag,
                ShownIsCurrent, Has
  <2>4. UNCHANGED setting
    BY <1>5 DEF vars
  <2> QED
    BY <2>1, <2>2, <2>3, <2>4, SettingsStay DEF IInv
<1> QED
  BY <1>1, <1>2, <1>3, <1>4, <1>5 DEF Next

\* Hashes, files and copies stay related as the invariant says, from the scan of
\* the directory to the browser.
THEOREM StaticSiteInvariant == Spec => []IInv
  BY InitIInv, NextIInv, PTL DEF Spec

\* In every setting: a binary holds whole assets only, and no recorded time is
\* negative.
THEOREM SitesAreTyped == Spec => []TypeOK
<1>1. IInv => TypeOK
  BY DEF IInv
<1> QED
  BY <1>1, StaticSiteInvariant, PTL

\* Where nothing is edited between manifest and snapshot, the ETag of an asset
\* is the hash of its bytes, through failed builds, rebuilds and rollbacks.
THEOREM TagsNameTheirBytes ==
    ASSUME \A s \in Settings : s.upToDate
    PROVE  Spec => []EtagNamesBytes
<1>1. IInv => EtagNamesBytes
  BY DEF IInv, TypeOK
<1> QED
  BY <1>1, StaticSiteInvariant, PTL

\* Where moreover no request carries a date alone, or dates tell the versions of a
\* file apart, no stored copy ever goes by the tag of other bytes, whichever page
\* answers for its URL.
THEOREM CopiesKeepTheirTags ==
    ASSUME \A s \in Settings : Validates(s)
    PROVE  Spec => []CopyKeepsItsTag
<1>1. IInv => CopyKeepsItsTag
  BY DEF IInv, TypeOK
<1> QED
  BY <1>1, StaticSiteInvariant, PTL

\* In those settings a 304 is given only to a client that has the current bytes:
\* by tag even when files arrive with older times, and by date alone if each edit
\* is of a later second than the one before and one asset answers for a URL.
THEOREM ClientsShowWhatIsServed ==
    ASSUME \A s \in Settings : Validates(s)
    PROVE  Spec => []ShownIsCurrent
<1>1. IInv => ShownIsCurrent
  BY DEF IInv, TypeOK
<1> QED
  BY <1>1, StaticSiteInvariant, PTL
=============================================================================

-------------------------- MODULE PersistenceProofs --------------------------
(***************************************************************************)
(* Theorems about Persistence, for all edits, intervals and bounds.         *)
(***************************************************************************)
EXTENDS Persistence, FiniteSetTheorems, TLAPS

(* A running program's settings hold the edits the file has. *)
FileBehindMemory ==
    phase = "on" => settings_file # Absent /\ settings_file.edits \subseteq settings.edits

(* What loading a readable state file gives. *)
Stored == IF state_file = Absent THEN DefaultRuntime ELSE state_file

(* The last interval's values begin with the present one. *)
TrailIsCurrent == phase = "on" => runtime \in trail[1]

(* The file holds what was saved last, and that is as old as the timer has  *)
(* run since.                                                               *)
FileIsRecent ==
    ~astray /\ autosaving =>
        /\ Stored = last_saved
        /\ \E i \in DOMAIN trail : i <= 1 + Interval - timer /\ last_saved \in trail[i]

(* What a close saved is in the files until the next start; one that fails  *)
(* may move the settings away.                                              *)
ClosedIsStored ==
    /\ phase # "off" => ~closed /\ ~kept
    /\ phase = "off" /\ closed /\ ~astray => Stored = runtime
    /\ phase = "off" /\ kept => settings_file \in {settings, Absent}

IInv == TypeOK /\ FileBehindMemory /\ TrailIsCurrent /\ FileIsRecent /\ ClosedIsStored
----------------------------------------------------------------------------
(* One or two saves add a natural number to the failures. *)
LEMMA CountType ==
    ASSUME failures \in Nat, NEW a \in BOOLEAN, NEW b \in BOOLEAN, Count(<<a>>) \/ Count(<<a, b>>)
    PROVE  failures' \in Nat
<1>1. DOMAIN <<a>> = 1..1 /\ DOMAIN <<a, b>> = 1..2
  OBVIOUS
<1>2. \A n \in Nat : \A S \in SUBSET (1..n) : Cardinality(S) \in Nat
  <2> SUFFICES ASSUME NEW n \in Nat, NEW S \in SUBSET (1..n) PROVE Cardinality(S) \in Nat
    OBVIOUS
  <2>1. IsFiniteSet(1..n)
    BY FS_Interval
  <2>2. IsFiniteSet(S)
    BY <2>1, FS_Subset
  <2> QED
    BY <2>2, FS_CardinalityType
<1>3. CASE Count(<<a>>)
  <2>1. {i \in DOMAIN <<a>> : ~<<a>>[i]} \in SUBSET (1..1)
    BY <1>1
  <2>2. Cardinality({i \in DOMAIN <<a>> : ~<<a>>[i]}) \in Nat
    BY <1>2, <2>1
  <2> QED
    BY <1>3, <2>2 DEF Count, Fails
<1>4. CASE Count(<<a, b>>)
  <2>1. {i \in DOMAIN <<a, b>> : ~<<a, b>>[i]} \in SUBSET (1..2)
    BY <1>1
  <2>2. Cardinality({i \in DOMAIN <<a, b>> : ~<<a, b>>[i]}) \in Nat
    BY <1>2, <2>1
  <2> QED
    BY <1>4, <2>2 DEF Count, Fails
<1> QED
  BY <1>3, <1>4

(* Loading the settings gives settings, or nothing was loaded; what the     *)
(* file had is there afterwards or was moved.                               *)
LEMMA LoadConfigType ==
    ASSUME TypeOK, NEW loaded \in BOOLEAN, NEW misread \in BOOLEAN, LoadConfig(loaded, misread)
    PROVE  /\ settings_file' \in Settings \cup {Absent} /\ backup' \in Settings \cup {Absent}
           /\ {rename_failures', failures'} \subseteq Nat
           /\ loaded => settings_file' \in Settings
           /\ ~loaded => settings_file' \in {settings_file, Absent}
           /\ settings_file # Absent /\ rename_failures' = rename_failures =>
                 \/ settings_file' = settings_file
                 \/ backup' = settings_file
<1> USE DEF TypeOK
<1>1. DefaultSettings \in Settings
  BY PersistenceAssumption DEF DefaultSettings, Settings
<1>2. CASE settings_file # Absent /\ loaded
           /\ UNCHANGED <<settings_file, backup, failures, rename_failures>>
  BY <1>2
<1>3. CASE /\ settings_file = Absent
           /\ Saved(settings_file, DefaultSettings, loaded)
           /\ Count(<<loaded>>)
           /\ UNCHANGED <<backup, rename_failures>>
  <2>1. failures' \in Nat
    BY <1>3, CountType
  <2> QED
    BY <1>1, <1>3, <2>1 DEF Saved
<1>4. CASE /\ settings_file # Absent
           /\ \E moved \in BOOLEAN :
                 /\ SetAside(moved)
                 /\ settings_file' = IF loaded THEN DefaultSettings ELSE IF moved THEN Absent ELSE settings_file
                 /\ Count(<<moved, loaded>>)
  <2>1. PICK moved \in BOOLEAN :
           /\ SetAside(moved)
           /\ settings_file' = IF loaded THEN DefaultSettings ELSE IF moved THEN Absent ELSE settings_file
           /\ Count(<<moved, loaded>>)
    BY <1>4
  <2>2. failures' \in Nat
    BY <2>1, CountType
  <2>3. /\ backup' = IF moved THEN settings_file ELSE backup
        /\ rename_failures' = IF moved THEN rename_failures ELSE rename_failures + 1
    BY <2>1 DEF SetAside
  <2> QED
    BY <1>1, <1>4, <2>1, <2>2, <2>3
<1> QED
  BY <1>2, <1>3, <1>4 DEF LoadConfig

LEMMA ClampedType ==
    ASSUME NEW r \in Runtimes, NEW m \in 1..MaxHp
    PROVE  Clamped(r, m) \in Runtimes
<1>1. MaxHp \in Nat
  BY PersistenceAssumption
<1> QED
  BY <1>1 DEF Clamped, Runtimes

(* A start loads the settings, and a program that runs loaded its runtime   *)
(* values too.                                                              *)
LEMMA StartLoads ==
    ASSUME TypeOK, Start
    PROVE  /\ \E loaded, misread \in BOOLEAN :
                 /\ LoadConfig(loaded, misread)
                 /\ phase' # "off" => loaded
                 /\ phase' = "off" => ~loaded /\ UNCHANGED <<ended, memory>>
           /\ misreads' \in Nat
<1>1. PICK loaded \in BOOLEAN, misread \in BOOLEAN, readable \in BOOLEAN :
         /\ LoadConfig(loaded, misread)
         /\ misreads' = misreads + Misread(misread) + Misread(~readable)
         /\ IF loaded THEN phase' = "on" ELSE UNCHANGED <<ended, memory>>
  BY DEF Start
<1>2. misreads' \in Nat
  BY <1>1 DEF Misread, TypeOK
<1>3. loaded => phase' = "on"
  BY <1>1
<1>4. ~loaded => phase' = "off" /\ UNCHANGED <<ended, memory>>
  BY <1>1 DEF Start, ended
<1> QED
  BY <1>1, <1>2, <1>3, <1>4

(* A started program has what its files gave it. *)
LEMMA StartGives ==
    ASSUME TypeOK, Start, phase' # "off"
    PROVE  /\ phase = "off" /\ phase' = "on" /\ closed' = FALSE /\ kept' = FALSE
           /\ settings_file' \in Settings
           /\ settings' = Unselected(settings_file') /\ settings' \in Settings
           /\ settings'.edits = settings_file'.edits /\ maximum_hp' = settings'.maximum_hp
           /\ last_saved' \in Runtimes /\ runtime' \in Runtimes
           /\ runtime' = Clamped(last_saved', settings'.maximum_hp)
           /\ astray' \in BOOLEAN /\ (~astray' => ~astray /\ last_saved' = Stored)
           /\ ui_dirty' = TRUE /\ autosaving' = TRUE /\ timer' = Interval
           /\ trail' = <<{runtime', last_saved'}>> /\ save_failed' = FALSE
<1> USE DEF TypeOK
<1>1. PICK loaded \in BOOLEAN, misread \in BOOLEAN, readable \in BOOLEAN :
         /\ LoadConfig(loaded, misread)
         /\ IF loaded
            THEN /\ phase' = "on" /\ closed' = FALSE /\ kept' = FALSE
                 /\ settings' = Unselected(settings_file')
                 /\ LoadRuntimeState(readable)
                 /\ ui_dirty' = TRUE
                 /\ autosaving' = TRUE /\ timer' = Interval
                 /\ trail' = <<{runtime', last_saved'}>>
                 /\ save_failed' = FALSE
            ELSE UNCHANGED <<ended, memory>>
  BY DEF Start
<1>2. loaded /\ phase = "off"
  BY <1>1 DEF Start, ended
<1>3. settings_file' \in Settings
  BY <1>1, <1>2, LoadConfigType
<1>4. /\ last_saved' = IF readable /\ state_file # Absent THEN state_file ELSE DefaultRuntime
      /\ maximum_hp' = settings'.maximum_hp
      /\ runtime' = Clamped(last_saved', maximum_hp')
      /\ astray' = (astray \/ ~readable)
  BY <1>1, <1>2 DEF LoadRuntimeState
<1>5. DefaultRuntime \in Runtimes
  BY PersistenceAssumption DEF DefaultRuntime, Runtimes
<1>6. last_saved' \in Runtimes
  BY <1>4, <1>5
<1>7. settings' = Unselected(settings_file')
  BY <1>1, <1>2
<1>8. settings' \in Settings /\ settings'.edits = settings_file'.edits
  BY <1>3, <1>7 DEF Unselected, Settings
<1>9. settings'.maximum_hp \in 1..MaxHp
  BY <1>8 DEF Settings
<1>10. runtime' \in Runtimes
  BY <1>4, <1>6, <1>9, ClampedType
<1>11. astray' \in BOOLEAN /\ (~astray' => ~astray /\ last_saved' = Stored)
  BY <1>4 DEF Stored
<1> QED
  BY <1>1, <1>2, <1>3, <1>4, <1>6, <1>7, <1>8, <1>10, <1>11

(* What becomes of the settings while the program runs. *)
LEMMA SettingsTypes ==
    ASSUME settings \in Settings
    PROVE  /\ \A s \in Edited : s \in Settings /\ settings.edits \subseteq s.edits /\ s.source = settings.source
           /\ \A c \in Sources \cup {Absent} :
                 [settings EXCEPT !.source = c] \in Settings /\ [settings EXCEPT !.source = c].edits = settings.edits
           /\ \A s \in Settings, b \in BOOLEAN :
                 /\ [s EXCEPT !.enabled = b] \in Settings /\ [s EXCEPT !.enabled = b].edits = s.edits
                 /\ [s EXCEPT !.enabled = b].source = s.source
           /\ \A m \in 1..MaxHp :
                 /\ [settings EXCEPT !.maximum_hp = m] \in Settings
                 /\ [settings EXCEPT !.maximum_hp = m].edits = settings.edits
                 /\ [settings EXCEPT !.maximum_hp = m].source = settings.source
<1>2. ASSUME NEW s \in Edited
      PROVE  s \in Settings /\ settings.edits \subseteq s.edits /\ s.source = settings.source
  <2>1. CASE s = settings
    BY <2>1
  <2>2. CASE \E e \in Edits : s = [settings EXCEPT !.edits = settings.edits \cup {e}]
    <3>1. PICK e \in Edits : s = [settings EXCEPT !.edits = settings.edits \cup {e}]
      BY <2>2
    <3> QED
      BY <3>1 DEF Settings
  <2> QED
    BY <2>1, <2>2 DEF Edited
<1>3. \A c \in Sources \cup {Absent} : LET s == [settings EXCEPT !.source = c]
                                       IN  s \in Settings /\ s.edits = settings.edits
  BY DEF Settings
<1>4. ASSUME NEW s \in Settings, NEW b \in BOOLEAN
      PROVE  /\ [s EXCEPT !.enabled = b] \in Settings /\ [s EXCEPT !.enabled = b].edits = s.edits
             /\ [s EXCEPT !.enabled = b].source = s.source
  BY DEF Settings
<1>5. ASSUME NEW m \in 1..MaxHp
      PROVE  /\ [settings EXCEPT !.maximum_hp = m] \in Settings
             /\ [settings EXCEPT !.maximum_hp = m].edits = settings.edits
             /\ [settings EXCEPT !.maximum_hp = m].source = settings.source
  BY DEF Settings
<1> QED
  BY <1>2, <1>3, <1>4, <1>5

(* Hit points rescaled to another maximum do not exceed it. *)
LEMMA RescaledType ==
    ASSUME runtime \in Runtimes, NEW m \in 1..MaxHp, NEW hp \in Rescaled(runtime.current_hp, m)
    PROVE  [runtime EXCEPT !.current_hp = hp] \in Runtimes
<1>1. MaxHp \in Nat /\ hp \in 0..MaxHp
  BY PersistenceAssumption DEF Rescaled
<1> QED
  BY <1>1 DEF Runtimes
----------------------------------------------------------------------------
(* The trail keeps its form when a value is added and when an interval's    *)
(* step passes.                                                             *)
LEMMA TrailType ==
    ASSUME TypeOK, phase = "on"
    PROVE  /\ \A r \in Runtimes :
                LET t == [trail EXCEPT ![1] = @ \cup {r}]
                IN  t \in Seq(SUBSET Runtimes) /\ Len(t) = Len(trail) /\ r \in t[1]
                    /\ \A i \in DOMAIN trail : i \in DOMAIN t /\ trail[i] \subseteq t[i]
           /\ LET n == IF Len(trail) > Interval THEN Interval + 1 ELSE Len(trail) + 1
                  t == [i \in 1..n |-> IF i = 1 THEN {runtime} ELSE trail[i - 1]]
              IN  t \in Seq(SUBSET Runtimes) /\ Len(t) = n /\ n \in 1..(Interval + 1)
<1>1. /\ trail \in Seq(SUBSET Runtimes) /\ Len(trail) \in 1..(Interval + 1) /\ runtime \in Runtimes
      /\ Interval \in Nat \ {0}
  BY PersistenceAssumption DEF TypeOK
<1>2. ASSUME NEW r \in Runtimes
      PROVE  LET t == [trail EXCEPT ![1] = @ \cup {r}]
             IN  t \in Seq(SUBSET Runtimes) /\ Len(t) = Len(trail) /\ r \in t[1]
                 /\ \A i \in DOMAIN trail : i \in DOMAIN t /\ trail[i] \subseteq t[i]
  <2> DEFINE t == [trail EXCEPT ![1] = @ \cup {r}]
  <2>1. 1 \in DOMAIN trail /\ trail[1] \in SUBSET Runtimes
    BY <1>1
  <2>2. t \in Seq(SUBSET Runtimes) /\ Len(t) = Len(trail)
    BY <1>1, <2>1
  <2>3. r \in t[1] /\ \A i \in DOMAIN trail : i \in DOMAIN t /\ trail[i] \subseteq t[i]
    BY <1>1, <2>1
  <2> QED
    BY <2>2, <2>3
<1>3. LET n == IF Len(trail) > Interval THEN Interval + 1 ELSE Len(trail) + 1
          t == [i \in 1..n |-> IF i = 1 THEN {runtime} ELSE trail[i - 1]]
      IN  t \in Seq(SUBSET Runtimes) /\ Len(t) = n /\ n \in 1..(Interval + 1)
  <2> DEFINE n == IF Len(trail) > Interval THEN Interval + 1 ELSE Len(trail) + 1
             t == [i \in 1..n |-> IF i = 1 THEN {runtime} ELSE trail[i - 1]]
  <2>1. n \in 1..(Interval + 1) /\ n <= Len(trail) + 1
    BY <1>1
  <2> HIDE DEF n
  <2>2. \A i \in 1..n : (IF i = 1 THEN {runtime} ELSE trail[i - 1]) \in SUBSET Runtimes
    <3> SUFFICES ASSUME NEW i \in 1..n, i # 1 PROVE trail[i - 1] \in SUBSET Runtimes
      BY <1>1
    <3>1. i - 1 \in 1..Len(trail)
      BY <1>1, <2>1
    <3> QED
      BY <1>1, <3>1
  <2>3. t \in Seq(SUBSET Runtimes) /\ Len(t) = n
    BY <2>1, <2>2
  <2> QED
    BY <2>1, <2>3 DEF n
<1> QED
  BY <1>2, <1>3

(* What a running program adds to the trail keeps its type. *)
LEMMA BecomeType ==
    ASSUME TypeOK, phase = "on", NEW r \in Runtimes, Become(r)
    PROVE  /\ runtime' \in Runtimes /\ trail' \in Seq(SUBSET Runtimes) /\ Len(trail') = Len(trail)
           /\ runtime' \in trail'[1]
           /\ \A i \in DOMAIN trail : i \in DOMAIN trail' /\ trail[i] \subseteq trail'[i]
BY TrailType DEF Become

(* The steps by which the settings or the runtime values of a running       *)
(* program change, and what of it comes into the settings file.             *)
Kept == UNCHANGED <<runtime, trail>> \/ \E r \in Runtimes : Become(r)

Stays ==
    UNCHANGED <<phase, closed, kept, last_saved, autosaving, timer, astray, state_file, backup, rename_failures,
                misreads>>

Grown(s) == s \in Settings /\ settings.edits \subseteq s.edits

LEMMA ChangeSteps ==
    ASSUME TypeOK,
           ChangeRuntime \/ ApplyState \/ DropSource \/ ChangeUi \/ SaveNow \/ PairWithSam \/ SaveSettings
    PROVE  /\ phase = "on" /\ Kept /\ Stays
           /\ maximum_hp' \in 1..MaxHp /\ changes' \in Nat /\ failures' \in Nat
           /\ ui_dirty' \in BOOLEAN /\ save_failed' \in BOOLEAN
           /\ Grown(settings')
           /\ \/ UNCHANGED settings_file
              \/ Grown(settings_file') /\ settings_file'.edits \subseteq settings'.edits
           /\ ~ui_dirty' /\ ~save_failed' =>
                 \/ /\ settings_file' \in Settings
                    /\ settings'.edits = settings_file'.edits /\ settings'.source = settings_file'.source
                 \/ /\ UNCHANGED <<settings_file, ui_dirty, save_failed>>
                    /\ settings'.edits = settings.edits /\ settings'.source \in {settings.source, Absent}
<1> USE DEF TypeOK, Stays, MayChange, ended, files
<1>1. phase = "on" /\ changes' \in Nat /\ Stays
  BY DEF ChangeRuntime, ApplyState, DropSource, ChangeUi, SaveNow, PairWithSam, SaveSettings
<1>s. settings \in Settings /\ Grown(settings) /\ settings.maximum_hp \in 1..MaxHp
  BY DEF Grown, Settings
<1>2. CASE ChangeRuntime
  BY <1>1, <1>2, <1>s DEF ChangeRuntime, Kept
<1>3. CASE ApplyState
  <2>1. settings' = settings \/ settings' = [settings EXCEPT !.maximum_hp = maximum_hp']
    BY <1>3 DEF ApplyState
  <2>2. maximum_hp' \in 1..MaxHp /\ Kept /\ UNCHANGED <<settings_file, ui_dirty, save_failed, failures>>
    BY <1>3 DEF ApplyState, Kept
  <2>3. settings' \in Settings /\ settings'.edits = settings.edits /\ settings'.source = settings.source
    <3>1. CASE settings' = settings
      BY <1>s, <3>1
    <3>2. CASE settings' = [settings EXCEPT !.maximum_hp = maximum_hp']
      BY <1>s, <2>2, <3>2, SettingsTypes
    <3> QED
      BY <2>1, <3>1, <3>2
  <2> QED
    BY <1>1, <2>2, <2>3 DEF Grown
<1>4. CASE DropSource
  <2>1. settings' \in Settings /\ settings'.edits = settings.edits /\ settings'.source = Absent
    BY <1>4, <1>s DEF DropSource, Unselected, Settings
  <2> QED
    BY <1>1, <1>4, <2>1 DEF DropSource, Kept, Grown
<1>5. CASE ChangeUi
  <2>1. Grown(settings')
    BY <1>5, <1>s, SettingsTypes DEF ChangeUi, Grown
  <2> QED
    BY <1>1, <1>5, <2>1 DEF ChangeUi, Kept
<1>6. CASE SaveNow
  <2>1. Grown(settings')
    <3>1. CASE settings' \in Edited
      BY <1>s, <3>1, SettingsTypes DEF Grown
    <3>2. CASE \E c \in Sources \cup {Absent} : settings' = [settings EXCEPT !.source = c]
      BY <1>s, <3>2, SettingsTypes DEF Grown
    <3>3. CASE \E b \in BOOLEAN : settings' = [settings EXCEPT !.enabled = b]
      BY <1>s, <3>3, SettingsTypes DEF Grown
    <3> QED
      BY <1>6, <3>1, <3>2, <3>3 DEF SaveNow
  <2>2. PICK ok \in BOOLEAN :
           Saved(settings_file, settings', ok) /\ save_failed' = ~ok /\ Count(<<ok>>)
    BY <1>6 DEF SaveNow
  <2>3. failures' \in Nat
    BY <2>2, CountType
  <2> QED
    BY <1>1, <1>6, <2>1, <2>2, <2>3 DEF SaveNow, Saved, Kept, Grown
<1>7. CASE PairWithSam
  <2>1. PICK form \in Edited, ok \in BOOLEAN, coded \in BOOLEAN :
           /\ Saved(settings_file, form, ok)
           /\ settings' = IF ok /\ coded THEN [form EXCEPT !.enabled = TRUE] ELSE form
           /\ save_failed' = ~ok
           /\ Count(<<ok>>)
    BY <1>7 DEF PairWithSam
  <2>2. failures' \in Nat
    BY <2>1, CountType
  <2>3. form \in Settings /\ settings.edits \subseteq form.edits
    BY <1>s, SettingsTypes
  <2>4. settings' \in Settings /\ settings'.edits = form.edits /\ settings'.source = form.source
    <3>1. settings' = form \/ settings' = [form EXCEPT !.enabled = TRUE]
      BY <2>1
    <3> QED
      BY <1>s, <2>3, <3>1, SettingsTypes
  <2> QED
    BY <1>1, <1>7, <2>1, <2>2, <2>3, <2>4 DEF PairWithSam, Saved, Kept, Grown
<1>8. CASE SaveSettings
  <2>1. PICK first \in BOOLEAN, applied \in BOOLEAN, second \in BOOLEAN :
           /\ settings' \in Edited
           /\ Saved(settings_file, settings', first \/ second)
           /\ IF first /\ applied
              THEN /\ maximum_hp' = settings.maximum_hp
                   /\ \E hp \in Rescaled(runtime.current_hp, maximum_hp') :
                         Become([runtime EXCEPT !.current_hp = hp])
              ELSE UNCHANGED <<maximum_hp, runtime, trail>>
           /\ ui_dirty' = (ui_dirty /\ ~second)
           /\ save_failed' = ~(first \/ second)
           /\ Count(<<first, second>>)
    BY <1>8 DEF SaveSettings
  <2>2. failures' \in Nat
    BY <2>1, CountType
  <2>3. Grown(settings')
    BY <1>s, <2>1, SettingsTypes DEF Grown
  <2>4. maximum_hp' \in 1..MaxHp /\ Kept
    BY <1>s, <2>1, RescaledType DEF Kept
  <2>5. ui_dirty' \in BOOLEAN /\ save_failed' \in BOOLEAN
    BY <2>1
  <2>6. \/ UNCHANGED settings_file /\ save_failed'
        \/ settings_file' = settings'
    BY <2>1 DEF Saved
  <2> QED
    BY <1>1, <2>2, <2>3, <2>4, <2>5, <2>6 DEF Grown
<1> QED
  BY <1>2, <1>3, <1>4, <1>5, <1>6, <1>7, <1>8

LEMMA TypeStep ==
    ASSUME TypeOK, [Next]_vars
    PROVE  TypeOK'
<1> USE PersistenceAssumption DEF TypeOK
<1>1. CASE Start
  <2>1. /\ settings_file' \in Settings \cup {Absent} /\ backup' \in Settings \cup {Absent}
        /\ {rename_failures', failures', misreads'} \subseteq Nat
    BY <1>1, StartLoads, LoadConfigType
  <2>2. state_file' = state_file /\ changes' = changes
    BY <1>1 DEF Start
  <2>3. CASE phase' = "off"
    <3>1. UNCHANGED <<ended, memory>>
      BY <1>1, <2>3, StartLoads
    <3> QED
      BY <2>1, <2>2, <3>1 DEF ended, memory
  <2>4. CASE phase' # "off"
    <3> DEFINE t == <<{runtime', last_saved'}>>
    <3>1. runtime' \in Runtimes /\ last_saved' \in Runtimes
      BY <1>1, <2>4, StartGives
    <3>2. t \in Seq(SUBSET Runtimes) /\ Len(t) = 1
      BY <3>1
    <3>3. trail' = t
      BY <1>1, <2>4, StartGives
    <3> HIDE DEF t
    <3>4. /\ phase' = "on" /\ closed' = FALSE /\ kept' = FALSE /\ settings' \in Settings
          /\ maximum_hp' = settings'.maximum_hp
          /\ astray' \in BOOLEAN /\ ui_dirty' = TRUE /\ autosaving' = TRUE /\ timer' = Interval
          /\ save_failed' = FALSE
      BY <1>1, <2>4, StartGives
    <3>5. Interval \in 0..Interval /\ 1 \in 0..(Interval + 1)
      OBVIOUS
    <3>6. {closed', kept', ui_dirty', autosaving', astray', save_failed'} \subseteq BOOLEAN
      BY <3>4
    <3>7. maximum_hp' \in 1..MaxHp
      BY <3>4 DEF Settings
    <3>8. /\ phase' \in {"off", "on", "stuck"} /\ state_file' \in Runtimes \cup {Absent} /\ changes' \in Nat
      BY <2>2, <3>4
    <3>9. timer' \in 0..Interval /\ trail' \in Seq(SUBSET Runtimes) /\ Len(trail') \in 0..(Interval + 1)
          /\ Len(trail') > 0
      <4>1. timer' \in 0..Interval
        BY <3>4, <3>5
      <4>2. trail' \in Seq(SUBSET Runtimes) /\ Len(trail') = 1
        BY <3>2, <3>3, Zenon
      <4> QED
        BY <4>1, <4>2, <3>5
    <3> QED
      BY <2>1, <3>1, <3>4, <3>6, <3>7, <3>8, <3>9
  <2> QED
    BY <2>3, <2>4
<1>2. CASE ChangeRuntime \/ ApplyState \/ DropSource \/ ChangeUi \/ SaveNow \/ PairWithSam \/ SaveSettings
  <2>1. /\ phase = "on" /\ Kept /\ Stays /\ maximum_hp' \in 1..MaxHp /\ changes' \in Nat /\ failures' \in Nat
        /\ ui_dirty' \in BOOLEAN /\ save_failed' \in BOOLEAN /\ Grown(settings')
        /\ (UNCHANGED settings_file \/ Grown(settings_file'))
    BY <1>2, ChangeSteps
  <2>2. runtime' \in Runtimes /\ trail' \in Seq(SUBSET Runtimes) /\ Len(trail') = Len(trail)
    BY <2>1, BecomeType DEF Kept
  <2>3. settings' \in Settings /\ settings_file' \in Settings \cup {Absent}
    BY <2>1 DEF Grown
  <2> QED
    BY <2>1, <2>2, <2>3 DEF Stays
<1>6. CASE AutosaveTick
  <2>1. failures' \in Nat
    BY <1>6, CountType DEF AutosaveTick
  <2>2. /\ last_saved' \in Runtimes /\ state_file' \in Runtimes \cup {Absent}
        /\ settings_file' \in Settings \cup {Absent} /\ timer' \in 0..Interval
    <3>1. PICK stateOk \in BOOLEAN, uiOk \in BOOLEAN :
             /\ Saved(state_file, runtime, Unsaved(runtime) /\ stateOk)
             /\ last_saved' = IF Unsaved(runtime) /\ stateOk THEN runtime ELSE last_saved
             /\ \/ Saved(settings_file, settings, ui_dirty /\ uiOk) /\ timer' = Interval
                \/ UNCHANGED <<settings_file, timer>>
      BY <1>6 DEF AutosaveTick
    <3>2. last_saved' \in Runtimes /\ state_file' \in Runtimes \cup {Absent}
      BY <3>1 DEF Saved
    <3>3. settings_file' \in Settings \cup {Absent} /\ timer' \in 0..Interval
      BY <3>1 DEF Saved
    <3> QED
      BY <3>2, <3>3
  <2>3. {ui_dirty', save_failed', astray', autosaving'} \subseteq BOOLEAN
    BY <1>6 DEF AutosaveTick, StillDirty
  <2> QED
    BY <1>6, <2>1, <2>2, <2>3 DEF AutosaveTick, ended
<1>7. CASE Advance
  <2>1. trail' \in Seq(SUBSET Runtimes) /\ Len(trail') \in 1..(Interval + 1)
    BY <1>7, TrailType DEF Advance
  <2>2. timer' \in 0..Interval
    BY <1>7 DEF Advance
  <2> QED
    BY <1>7, <2>1, <2>2 DEF Advance, ended, files, bounds
<1>8. CASE Close
  <2>1. failures' \in Nat
    BY <1>8, CountType DEF Close
  <2>2. /\ last_saved' \in Runtimes /\ state_file' \in Runtimes \cup {Absent}
        /\ settings_file' \in Settings \cup {Absent} /\ phase' \in {"off", "on", "stuck"}
    BY <1>8 DEF Close, Saved
  <2>3. {closed', kept', astray', autosaving'} \subseteq BOOLEAN
    BY <1>8 DEF Close
  <2>4. phase' # "on"
    BY <1>8 DEF Close
  <2> QED
    BY <1>8, <2>1, <2>2, <2>3, <2>4 DEF Close
<1>9. CASE Crash
  BY <1>9 DEF Crash, memory, files, bounds
<1>10. CASE UNCHANGED vars
  BY <1>10 DEF vars, ended, memory, files, bounds
<1> QED
  BY <1>1, <1>2, <1>6, <1>7, <1>8, <1>9, <1>10 DEF Next
----------------------------------------------------------------------------
LEMMA BehindStep ==
    ASSUME TypeOK, FileBehindMemory, [Next]_vars
    PROVE  FileBehindMemory'
<1> SUFFICES ASSUME phase' = "on" PROVE settings_file' # Absent /\ settings_file'.edits \subseteq settings'.edits
  BY DEF FileBehindMemory
<1>e. \A s \in Settings : s # Absent
  BY PersistenceAssumption
<1>s. settings \in Settings
  BY DEF TypeOK
<1>1. CASE Start
  BY <1>1, <1>e, StartGives
<1>2. CASE ChangeRuntime \/ ApplyState \/ DropSource \/ ChangeUi \/ SaveNow \/ PairWithSam \/ SaveSettings
  <2>1. /\ phase = "on" /\ Grown(settings')
        /\ \/ UNCHANGED settings_file
           \/ Grown(settings_file') /\ settings_file'.edits \subseteq settings'.edits
    BY <1>2, ChangeSteps
  <2> QED
    BY <1>e, <2>1 DEF FileBehindMemory, Grown
<1>3. CASE phase = "on" /\ UNCHANGED settings /\ settings_file' \in {settings_file, settings}
  BY <1>3, <1>e, <1>s DEF FileBehindMemory
<1>4. CASE AutosaveTick \/ Advance
  BY <1>3, <1>4 DEF AutosaveTick, Advance, Saved, ended, files
<1>5. CASE Close \/ Crash
  BY <1>5 DEF Close, Crash
<1>6. CASE UNCHANGED vars
  BY <1>3, <1>6 DEF vars, ended, memory, files
<1> QED
  BY <1>1, <1>2, <1>4, <1>5, <1>6 DEF Next

LEMMA CurrentStep ==
    ASSUME TypeOK, TrailIsCurrent, [Next]_vars
    PROVE  TrailIsCurrent'
<1> SUFFICES ASSUME phase' = "on" PROVE runtime' \in trail'[1]
  BY DEF TrailIsCurrent
<1>1. CASE Start
  <2>1. trail' = <<{runtime', last_saved'}>>
    BY <1>1, StartGives
  <2> QED
    BY <2>1
<1>2. CASE ChangeRuntime \/ ApplyState \/ DropSource \/ ChangeUi \/ SaveNow \/ PairWithSam \/ SaveSettings
  <2>1. phase = "on" /\ Kept
    BY <1>2, ChangeSteps
  <2> QED
    BY <2>1, BecomeType DEF Kept, TrailIsCurrent
<1>3. CASE Advance
  <2> DEFINE n == IF Len(trail) > Interval THEN Interval + 1 ELSE Len(trail) + 1
  <2>1. trail' = [i \in 1..n |-> IF i = 1 THEN {runtime} ELSE trail[i - 1]] /\ runtime' = runtime
    BY <1>3 DEF Advance
  <2>2. 1 \in 1..n
    BY <1>3, TrailType DEF Advance
  <2> HIDE DEF n
  <2> QED
    BY <2>1, <2>2
<1>4. CASE phase = "on" /\ UNCHANGED <<runtime, trail>>
  BY <1>4 DEF TrailIsCurrent
<1>5. CASE Close \/ Crash
  BY <1>5 DEF Close, Crash
<1> QED
  BY <1>1, <1>2, <1>3, <1>4, <1>5 DEF Next, AutosaveTick, vars, ended, memory

LEMMA RecentStep ==
    ASSUME TypeOK, TrailIsCurrent, FileIsRecent, [Next]_vars
    PROVE  FileIsRecent'
<1> SUFFICES ASSUME ~astray', autosaving'
             PROVE  /\ Stored' = last_saved'
                    /\ \E i \in DOMAIN trail' : i <= 1 + Interval - timer' /\ last_saved' \in trail'[i]
  BY DEF FileIsRecent
<1>t. /\ Interval \in Nat \ {0} /\ timer \in 0..Interval /\ trail \in Seq(SUBSET Runtimes)
      /\ runtime \in Runtimes /\ last_saved \in Runtimes /\ Absent \notin Runtimes
      /\ phase = "on" => Len(trail) \in 1..(Interval + 1)
  BY PersistenceAssumption DEF TypeOK, Runtimes
<1>r. ASSUME ~astray, autosaving
      PROVE  /\ Stored = last_saved
             /\ \E i \in DOMAIN trail : i <= 1 + Interval - timer /\ last_saved \in trail[i]
  BY <1>r DEF FileIsRecent
<1>u. CASE UNCHANGED <<state_file, last_saved, trail, timer, astray, autosaving>>
  BY <1>u, <1>r DEF Stored
<1>1. CASE Start
  <2>1. CASE phase' = "off"
    <3>1. UNCHANGED <<state_file, last_saved, trail, timer, astray, autosaving>>
      BY <1>1, <2>1, StartLoads DEF Start, memory
    <3> QED
      BY <1>u, <3>1
  <2>2. CASE phase' # "off"
    <3>1. /\ last_saved' = Stored /\ trail' = <<{runtime', last_saved'}>> /\ timer' = Interval
      BY <1>1, <2>2, StartGives
    <3>2. state_file' = state_file
      BY <1>1 DEF Start
    <3>3. 1 \in DOMAIN trail' /\ last_saved' \in trail'[1]
      BY <3>1
    <3> QED
      BY <1>t, <3>1, <3>2, <3>3 DEF Stored
  <2> QED
    BY <2>1, <2>2
<1>2. CASE ChangeRuntime \/ ApplyState \/ DropSource \/ ChangeUi \/ SaveNow \/ PairWithSam \/ SaveSettings
  <2>1. phase = "on" /\ Kept /\ UNCHANGED <<state_file, last_saved, timer, astray, autosaving>>
    BY <1>2, ChangeSteps DEF Stays
  <2>2. \A i \in DOMAIN trail : i \in DOMAIN trail' /\ trail[i] \subseteq trail'[i]
    BY <2>1, BecomeType DEF Kept
  <2> QED
    BY <1>r, <2>1, <2>2 DEF Stored
<1>3. CASE Advance
  <2> DEFINE n == IF Len(trail) > Interval THEN Interval + 1 ELSE Len(trail) + 1
  <2>1. /\ trail' = [i \in 1..n |-> IF i = 1 THEN {runtime} ELSE trail[i - 1]]
        /\ phase = "on" /\ timer > 0 /\ timer' = timer - 1
        /\ UNCHANGED <<state_file, last_saved, astray, autosaving>>
    BY <1>3 DEF Advance, files
  <2>2. PICK i \in DOMAIN trail : i <= 1 + Interval - timer /\ last_saved \in trail[i]
    BY <1>r, <2>1
  <2>3. i \in Nat \ {0} /\ i + 1 \in 1..n /\ i + 1 <= 1 + Interval - timer'
    BY <1>t, <2>1, <2>2
  <2> HIDE DEF n
  <2>4. i + 1 \in DOMAIN trail' /\ last_saved' \in trail'[i + 1]
    BY <2>1, <2>2, <2>3
  <2> QED
    BY <1>r, <2>1, <2>3, <2>4 DEF Stored
<1>4. CASE AutosaveTick
  <2>1. /\ timer' = Interval /\ phase = "on" /\ autosaving /\ UNCHANGED <<runtime, trail>>
        /\ \/ Unsaved(runtime) /\ state_file' = runtime /\ last_saved' = runtime
           \/ ~Unsaved(runtime) /\ UNCHANGED <<state_file, last_saved, astray>>
    <3>1. PICK stateOk \in BOOLEAN :
             /\ Saved(state_file, runtime, Unsaved(runtime) /\ stateOk)
             /\ last_saved' = IF Unsaved(runtime) /\ stateOk THEN runtime ELSE last_saved
             /\ astray' = (astray /\ ~(Unsaved(runtime) /\ stateOk))
             /\ IF stateOk THEN timer' = Interval /\ UNCHANGED autosaving ELSE autosaving' = FALSE
      BY <1>4 DEF AutosaveTick
    <3>2. stateOk /\ timer' = Interval /\ autosaving
      BY <3>1
    <3>3. CASE Unsaved(runtime)
      BY <1>4, <3>1, <3>2, <3>3 DEF AutosaveTick, Saved
    <3>4. CASE ~Unsaved(runtime)
      <4>1. astray' = astray
        BY <3>1, <3>4 DEF TypeOK
      <4> QED
        BY <1>4, <3>1, <3>2, <3>4, <4>1 DEF AutosaveTick, Saved
    <3> QED
      BY <3>3, <3>4
  <2>2. last_saved' = runtime /\ Stored' = last_saved'
    BY <1>r, <1>t, <2>1 DEF Unsaved, Stored
  <2>3. 1 \in DOMAIN trail' /\ last_saved' \in trail'[1]
    BY <1>t, <2>1, <2>2 DEF TrailIsCurrent
  <2> QED
    BY <1>t, <2>1, <2>2, <2>3
<1>5. CASE Close
  <2>1. /\ autosaving /\ UNCHANGED <<runtime, trail, timer>> /\ phase = "on"
        /\ state_file' = runtime /\ last_saved' = runtime
    BY <1>5 DEF Close, Saved
  <2>2. Stored' = last_saved'
    BY <1>t, <2>1 DEF Stored
  <2>3. 1 \in DOMAIN trail' /\ last_saved' \in trail'[1]
    BY <1>t, <2>1 DEF TrailIsCurrent
  <2> QED
    BY <1>t, <2>1, <2>2, <2>3
<1>6. CASE Crash \/ UNCHANGED vars
  BY <1>6, <1>u DEF Crash, vars, memory, files
<1> QED
  BY <1>1, <1>2, <1>3, <1>4, <1>5, <1>6 DEF Next

LEMMA ClosedStep ==
    ASSUME TypeOK, ClosedIsStored, [Next]_vars
    PROVE  ClosedIsStored'
<1> USE DEF ClosedIsStored
<1>1. CASE Start
  <2>1. CASE phase' = "off"
    <3>1. PICK loaded \in BOOLEAN, misread \in BOOLEAN : LoadConfig(loaded, misread) /\ ~loaded
      BY <1>1, <2>1, StartLoads
    <3>2. settings_file' \in {settings_file, Absent}
      BY <3>1, LoadConfigType
    <3>3. UNCHANGED <<phase, closed, kept, runtime, settings, astray, state_file>>
      BY <1>1, <2>1, StartLoads DEF Start, ended, memory
    <3> QED
      BY <3>2, <3>3 DEF Stored
  <2>2. CASE phase' # "off"
    BY <1>1, <2>2, StartGives
  <2> QED
    BY <2>1, <2>2
<1>2. CASE Close
  <2>1. Absent \notin Runtimes /\ runtime \in Runtimes
    BY PersistenceAssumption DEF TypeOK
  <2>2. PICK settingsOk \in BOOLEAN, stateOk \in BOOLEAN :
           /\ Saved(settings_file, settings, settingsOk)
           /\ Saved(state_file, runtime, stateOk)
           /\ phase' = IF stateOk THEN "off" ELSE "stuck"
           /\ closed' = stateOk /\ kept' = (stateOk /\ settingsOk)
    BY <1>2 DEF Close
  <2>3. UNCHANGED <<runtime, settings>>
    BY <1>2 DEF Close
  <2>4. CASE stateOk
    <3>1. phase' = "off" /\ Stored' = runtime'
      BY <2>1, <2>2, <2>3, <2>4 DEF Saved, Stored
    <3>2. kept' => settings_file' = settings'
      BY <2>2, <2>3, <2>4 DEF Saved
    <3> QED
      BY <3>1, <3>2
  <2>5. CASE ~stateOk
    BY <2>2, <2>5
  <2> QED
    BY <2>4, <2>5
<1>3. CASE Crash
  BY <1>3 DEF Crash
<1>4. CASE ChangeRuntime \/ ApplyState \/ DropSource \/ ChangeUi \/ SaveNow \/ PairWithSam \/ SaveSettings
  <2>1. phase = "on" /\ UNCHANGED <<phase, closed, kept>>
    BY <1>4, ChangeSteps DEF Stays
  <2> QED
    BY <2>1
<1>5. CASE AutosaveTick \/ Advance
  BY <1>5 DEF AutosaveTick, Advance, ended
<1>6. CASE UNCHANGED vars
  BY <1>6 DEF vars, ended, memory, files, Stored
<1> QED
  BY <1>1, <1>2, <1>3, <1>4, <1>5, <1>6 DEF Next
----------------------------------------------------------------------------
LEMMA InitInvariant == Init => IInv
<1> SUFFICES ASSUME Init PROVE IInv
  OBVIOUS
<1> USE PersistenceAssumption DEF Init
<1>1. DefaultRuntime \in Runtimes /\ DefaultSettings \in Settings
  BY DEF DefaultRuntime, DefaultSettings, Runtimes, Settings
<1>2. trail \in Seq(SUBSET Runtimes) /\ Len(trail) \in 0..(Interval + 1)
  OBVIOUS
<1>3. TypeOK
  <2>1. {closed, kept, ui_dirty, autosaving, astray, save_failed} \subseteq BOOLEAN
    OBVIOUS
  <2>2. timer \in 0..Interval /\ {rename_failures, changes, failures, misreads} \subseteq Nat
    OBVIOUS
  <2>3. phase = "off" /\ maximum_hp \in 1..MaxHp
    OBVIOUS
  <2> QED
    BY <1>1, <1>2, <2>1, <2>2, <2>3 DEF TypeOK
<1> QED
  BY <1>3 DEF IInv, FileBehindMemory, TrailIsCurrent, FileIsRecent, ClosedIsStored

(* The invariant holds in every reachable state. *)
LEMMA Invariance == Spec => []IInv
<1>1. IInv /\ [Next]_vars => IInv'
  <2> SUFFICES ASSUME IInv, [Next]_vars PROVE IInv'
    OBVIOUS
  <2> QED
    BY TypeStep, BehindStep, CurrentStep, RecentStep, ClosedStep DEF IInv
<1> QED
  BY InitInvariant, <1>1, PTL DEF Spec

(* Every variable keeps its type. *)
THEOREM TypeCorrect == Spec => []TypeOK
<1>1. IInv => TypeOK
  BY DEF IInv
<1> QED
  BY <1>1, Invariance, PTL

(* A start restores what a complete close left, or after a crash a value of *)
(* the last autosave interval, up to the maximum of the profile it loads    *)
(* (app_v0814.py 998-1026, app.py 66-77, 144-147).                          *)
THEOREM StartRestores == Spec => RestartRestores
<1> DEFINE A == phase = "off" /\ phase' = "on" =>
                   /\ kept /\ settings_file' = settings_file => settings' = Unselected(settings)
                   /\ ~astray' =>
                         IF closed THEN runtime' = Clamped(runtime, settings'.maximum_hp)
                         ELSE autosaving => \E r \in UNION {trail[i] : i \in DOMAIN trail} :
                                               runtime' = Clamped(r, settings'.maximum_hp)
<1>1. IInv /\ [Next]_vars => [A]_vars
  <2> SUFFICES ASSUME IInv, [Next]_vars, phase = "off", phase' = "on"
               PROVE  A
    OBVIOUS
  <2>1. CASE Start
    <3>1. /\ settings_file' \in Settings /\ settings' = Unselected(settings_file')
          /\ runtime' = Clamped(last_saved', settings'.maximum_hp)
          /\ ~astray' => ~astray /\ last_saved' = Stored
      BY <2>1, StartGives DEF IInv
    <3>2. kept /\ settings_file' = settings_file => settings' = Unselected(settings)
      BY <3>1, PersistenceAssumption DEF IInv, ClosedIsStored
    <3>3. ~astray' /\ closed => runtime' = Clamped(runtime, settings'.maximum_hp)
      BY <3>1 DEF IInv, ClosedIsStored
    <3>4. ~astray' /\ autosaving => \E r \in UNION {trail[i] : i \in DOMAIN trail} :
                                      runtime' = Clamped(r, settings'.maximum_hp)
      BY <3>1 DEF IInv, FileIsRecent
    <3> QED
      BY <3>2, <3>3, <3>4
  <2>2. CASE ChangeRuntime \/ ApplyState \/ DropSource \/ ChangeUi \/ SaveNow \/ PairWithSam \/ SaveSettings
    BY <2>2, ChangeSteps DEF IInv
  <2>3. CASE AutosaveTick \/ Advance \/ Close \/ Crash \/ UNCHANGED vars
    BY <2>3 DEF AutosaveTick, Advance, Close, Crash, vars, ended
  <2> QED
    BY <2>1, <2>2, <2>3 DEF Next
<1> HIDE DEF A
<1>2. RestartRestores <=> [][A]_vars
  BY DEF RestartRestores, A
<1> QED
  BY <1>1, <1>2, Invariance, PTL DEF Spec

(* An edit the settings file has stays in it, or the file moves to the      *)
(* backup (config.py 361-376).                                              *)
THEOREM EditsSurvive == Spec => SettingsSurvive
<1> DEFINE A == settings_file # Absent /\ rename_failures' = rename_failures =>
                   \/ settings_file' # Absent /\ settings_file.edits \subseteq settings_file'.edits
                   \/ backup' = settings_file
<1>1. IInv /\ [Next]_vars => [A]_vars
  <2> SUFFICES ASSUME IInv, [Next]_vars, settings_file # Absent, rename_failures' = rename_failures
               PROVE  \/ settings_file' # Absent /\ settings_file.edits \subseteq settings_file'.edits
                      \/ backup' = settings_file
    OBVIOUS
  <2>e. (\A s \in Settings : s # Absent) /\ settings \in Settings
    BY PersistenceAssumption DEF IInv, TypeOK
  <2>1. CASE Start
    BY <2>1, StartLoads, LoadConfigType DEF IInv
  <2>2. CASE settings_file' = settings_file
    BY <2>2
  <2>3. CASE phase = "on" /\ settings_file' \in Settings /\ settings.edits \subseteq settings_file'.edits
    BY <2>3, <2>e DEF IInv, FileBehindMemory
  <2>4. CASE ChangeRuntime \/ ApplyState \/ DropSource \/ ChangeUi \/ SaveNow \/ PairWithSam \/ SaveSettings
    <3>1. phase = "on" /\ (UNCHANGED settings_file \/ Grown(settings_file'))
      BY <2>4, ChangeSteps DEF IInv
    <3> QED
      BY <2>2, <2>3, <3>1 DEF Grown
  <2>5. CASE AutosaveTick \/ Close
    <3>1. phase = "on" /\ settings_file' \in {settings_file, settings}
      BY <2>5 DEF AutosaveTick, Close, Saved
    <3> QED
      BY <2>2, <2>3, <2>e, <3>1
  <2>6. CASE Advance \/ Crash \/ UNCHANGED vars
    BY <2>2, <2>6 DEF Advance, Crash, vars, files
  <2> QED
    BY <2>1, <2>4, <2>5, <2>6 DEF Next
<1> HIDE DEF A
<1>2. SettingsSurvive <=> [][A]_vars
  BY DEF SettingsSurvive, A
<1> QED
  BY <1>1, <1>2, Invariance, PTL DEF Spec

(* An edit or a selection the settings file lacks is marked, or a save has  *)
(* failed, whatever the program changes in the settings by itself           *)
(* (app_v0814.py 843-856, 1008-1014).                                       *)
THEOREM UnsavedRemembered == Spec => []UnsavedIsRemembered
<1>1. Init => UnsavedIsRemembered
  BY DEF Init, UnsavedIsRemembered
<1>2. TypeOK /\ UnsavedIsRemembered /\ [Next]_vars => UnsavedIsRemembered'
  <2> SUFFICES ASSUME TypeOK, UnsavedIsRemembered, [Next]_vars, phase' = "on", ~ui_dirty', ~save_failed'
               PROVE  /\ settings'.edits = settings_file'.edits
                      /\ settings'.source \in {settings_file'.source, Absent}
    BY DEF UnsavedIsRemembered
  <2> USE DEF UnsavedIsRemembered
  <2>1. CASE Start
    BY <2>1, StartGives
  <2>2. CASE ChangeRuntime \/ ApplyState \/ DropSource \/ ChangeUi \/ SaveNow \/ PairWithSam \/ SaveSettings
    <3>1. /\ phase = "on"
          /\ \/ settings'.edits = settings_file'.edits /\ settings'.source = settings_file'.source
             \/ /\ UNCHANGED <<settings_file, ui_dirty, save_failed>>
                /\ settings'.edits = settings.edits /\ settings'.source \in {settings.source, Absent}
      BY <2>2, ChangeSteps
    <3> QED
      BY <3>1
  <2>3. CASE AutosaveTick
    BY <2>3 DEF AutosaveTick, Saved, StillDirty
  <2>4. CASE Close \/ Crash
    BY <2>4 DEF Close, Crash
  <2>5. CASE Advance \/ UNCHANGED vars
    BY <2>5 DEF Advance, vars, ended, memory, files
  <2> QED
    BY <2>1, <2>2, <2>3, <2>4, <2>5 DEF Next
<1> QED
  BY <1>1, <1>2, TypeCorrect, PTL DEF Spec
=============================================================================

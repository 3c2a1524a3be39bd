-------------------------- MODULE HeapSnapshotProofs --------------------------
(***************************************************************************)
(* For any number of collections, sessions and snapshots.                  *)
(*                                                                         *)
(* The parser of garbage collection events attributes every event to the   *)
(* right collection: GcInv is inductive for the parser and the runtime,    *)
(* and the manager of heap snapshots does nothing to them but let the      *)
(* listeners return.                                                       *)
(*                                                                         *)
(* What the manager exports is of one dump (SnapshotInv is inductive), and *)
(* its snapshots keep their distance (SpacingInv is).                      *)
(***************************************************************************)
EXTENDS HeapSnapshot, TLAPS

USE ZenonT(5), SMTT(30)   \* the provers, in this order

-----------------------------------------------------------------------------
\* No collection, and details that were reset.
LEMMA Nothing ==
    /\ NoCollection \in Collections /\ NoCollection.number = 0
    /\ NoCollection.seen = FALSE /\ NoCollection.sent = {}
    /\ ResetGC \in Details /\ ResetGC.Number = -1
  BY DEF Collections, Details, NoCollection, Collection, ResetGC

\* A collection that starts.
LEMMA Numbering ==
    ASSUME NEW c \in Collections, NEW n \in Nat, NEW s \in BOOLEAN
    PROVE  LET e == [c EXCEPT !.number = n, !.seen = s]
           IN  /\ e \in Collections /\ e.number = n /\ e.seen = s /\ e.sent = c.sent
               /\ e.gen = c.gen /\ e.type = c.type /\ e.begun = c.begun
  BY DEF Collections

\* A collection that was under way before the events came.
LEMMA Joining ==
    ASSUME NEW c \in Collections, NEW n \in Nat
    PROVE  LET e == [c EXCEPT !.number = n]
           IN  /\ e \in Collections /\ e.number = n /\ e.seen = c.seen /\ e.sent = c.sent
               /\ e.gen = c.gen /\ e.type = c.type /\ e.begun = c.begun
  BY DEF Collections

\* A collection that sends one thing more.
LEMMA Sending ==
    ASSUME NEW c \in Collections, NEW x \in Facts \cup Batches
    PROVE  LET e == [c EXCEPT !.sent = @ \cup {x}]
           IN  /\ e \in Collections /\ e.sent = c.sent \cup {x} /\ e.number = c.number
               /\ e.seen = c.seen /\ e.gen = c.gen /\ e.type = c.type /\ e.begun = c.begun
  BY DEF Collections

\* Details that are made for a collection (InitializeGC).
LEMMA Initializing ==
    ASSUME NEW c \in Collections
    PROVE  LET d == InitializeGC(c)
           IN  /\ d \in Details /\ d.Number = c.number /\ d.Generation = c.gen /\ d.Type = c.type
               /\ d.Pauses = 0 /\ d.HasStats = FALSE /\ d.HasHistory = FALSE
  <1>1. c.number \in Int /\ c.gen \in 0..2 /\ c.type \in {"none", "NonConcurrent", "Foreground", "Background"}
    BY DEF Collections
  <1>2. /\ ResetGC.Pauses = 0 /\ ResetGC.HasStats = FALSE /\ ResetGC.HasHistory = FALSE
    BY DEF ResetGC
  <1>3. ASSUME NEW r \in Details
        PROVE  LET d == [r EXCEPT !.Number = c.number, !.Generation = c.gen, !.Type = c.type]
               IN  /\ d \in Details /\ d.Number = c.number /\ d.Generation = c.gen /\ d.Type = c.type
                   /\ d.Pauses = r.Pauses /\ d.HasStats = r.HasStats /\ d.HasHistory = r.HasHistory
    BY <1>1 DEF Details
  <1> QED BY <1>2, <1>3, Nothing DEF InitializeGC

\* Details that are filled in by HeapStats, ...
LEMMA FillingStats ==
    ASSUME NEW d \in Details, NEW n \in Nat
    PROVE  LET e == [d EXCEPT !.HasStats = TRUE, !.sizesOf = n]
           IN  /\ e \in Details /\ e.HasStats = TRUE /\ e.sizesOf = n
               /\ e.HasHistory = d.HasHistory /\ e.pressureOf = d.pressureOf
               /\ e.Number = d.Number /\ e.Generation = d.Generation /\ e.Type = d.Type
               /\ e.Pauses = d.Pauses
  BY DEF Details

\* ... by GlobalHeapHistory ...
LEMMA FillingHistory ==
    ASSUME NEW d \in Details, NEW n \in Nat
    PROVE  LET e == [d EXCEPT !.HasHistory = TRUE, !.pressureOf = n]
           IN  /\ e \in Details /\ e.HasHistory = TRUE /\ e.pressureOf = n
               /\ e.HasStats = d.HasStats /\ e.sizesOf = d.sizesOf
               /\ e.Number = d.Number /\ e.Generation = d.Generation /\ e.Type = d.Type
               /\ e.Pauses = d.Pauses
  BY DEF Details

\* ... and by a pause.
LEMMA FillingPauses ==
    ASSUME NEW d \in Details, NEW n \in Nat
    PROVE  LET e == [d EXCEPT !.Pauses = @ + n]
           IN  /\ e \in Details /\ e.Pauses = d.Pauses + n
               /\ e.HasStats = d.HasStats /\ e.sizesOf = d.sizesOf
               /\ e.HasHistory = d.HasHistory /\ e.pressureOf = d.pressureOf
               /\ e.Number = d.Number /\ e.Generation = d.Generation /\ e.Type = d.Type
  BY DEF Details

-----------------------------------------------------------------------------
\* The parser is made (ClrEventsParser) before it has seen a collection.
LEMMA GcInitially == GcInit => GcInv
  <1> SUFFICES ASSUME GcInit PROVE GcInv
    OBVIOUS
  <1>1. /\ gcInProgress \in Details /\ gcInProgress.Number = -1
        /\ currentBGC \in Details /\ currentBGC.Number = -1
        /\ suspensionStart = FALSE
    BY Nothing DEF GcInit
  <1>2. /\ fg \in Collections /\ fg.seen = FALSE /\ fg.sent = {}
        /\ bg \in Collections /\ bg.seen = FALSE /\ bg.sent = {}
        /\ ee \in {"running", "fg"} /\ count \in Nat
        /\ fg.number <= count /\ bg.number <= count
        /\ fg.number # 0 => fg.number # bg.number
        /\ ee = "fg" => fg.type = "NonConcurrent" /\ fg.begun = FALSE
        /\ ee # "fg" => fg = NoCollection
        /\ (bg = NoCollection /\ ee # "bg") \/ (bg.gen = 2 /\ bg.type = "Background")
    <2>1. CASE ee = "running" /\ fg = NoCollection /\ bg = NoCollection /\ count = 0
      BY <2>1, Nothing
    <2>2. CASE /\ ee = "fg" /\ bg = NoCollection /\ count = 1
               /\ fg = [Collection(1, "alloc", "NonConcurrent", FALSE, FALSE) EXCEPT !.number = 1]
      <3> DEFINE c == Collection(1, "alloc", "NonConcurrent", FALSE, FALSE)
      <3>1. c \in Collections /\ c.seen = FALSE /\ c.sent = {} /\ c.begun = FALSE
            /\ c.type = "NonConcurrent" /\ c.gen = 1
        BY DEF Collections, Collection
      <3>2. fg = [c EXCEPT !.number = 1]
        BY <2>2
      <3> HIDE DEF c
      <3>3. /\ fg \in Collections /\ fg.seen = FALSE /\ fg.sent = {} /\ fg.number = 1
            /\ fg.type = "NonConcurrent" /\ fg.begun = FALSE
        BY <3>1, <3>2, Joining
      <3>4. ee = "fg" /\ bg = NoCollection /\ count = 1
        BY <2>2
      <3> QED BY <3>3, <3>4, Nothing
    <2>3. CASE /\ ee = "running" /\ fg = NoCollection /\ count = 1
               /\ bg = [Collection(2, "alloc", "Background", FALSE, FALSE) EXCEPT !.number = 1]
      <3> DEFINE c == Collection(2, "alloc", "Background", FALSE, FALSE)
      <3>1. c \in Collections /\ c.seen = FALSE /\ c.sent = {} /\ c.begun = FALSE
            /\ c.type = "Background" /\ c.gen = 2
        BY DEF Collections, Collection
      <3>2. bg = [c EXCEPT !.number = 1]
        BY <2>3
      <3> HIDE DEF c
      <3>3. /\ bg \in Collections /\ bg.seen = FALSE /\ bg.sent = {} /\ bg.number = 1
            /\ bg.type = "Background" /\ bg.gen = 2
        BY <3>1, <3>2, Joining
      <3>4. ee = "running" /\ fg = NoCollection /\ count = 1
        BY <2>3
      <3> QED BY <3>3, <3>4, Nothing
    <2> QED BY <2>1, <2>2, <2>3 DEF GcInit
  <1>3. GcTypeOK
    BY <1>1, <1>2 DEF GcTypeOK
  <1>4. Follows(gcInProgress, fg) /\ Follows(currentBGC, bg)
    BY <1>1, <1>2 DEF Follows
  <1>5. Numbered
    BY <1>2 DEF Numbered
  <1>6. Blocking
    BY <1>1, <1>2 DEF Blocking
  <1>7. Background
    BY <1>2 DEF Background
  <1> QED BY <1>3, <1>4, <1>5, <1>6, <1>7 DEF GcInv

-----------------------------------------------------------------------------
\* A suspension of the EE (OnGCSuspendEEBegin) ends nothing and starts nothing.
LEMMA SuspendStep ==
    ASSUME GcInv, Pause \/ SuspendForDump
    PROVE  GcInv' /\ ExactStep
  <1>1. ASSUME NEW gen \in {1, 2}, NEW reason \in {"alloc", "induced"}, NEW dump \in BOOLEAN,
               SuspendForGC(gen, reason, dump)
        PROVE  GcInv' /\ ExactStep
    <2>1. PICK begun \in BOOLEAN :
            /\ gen = 2 => bg = NoCollection
            /\ Suspend("fg", begun)
            /\ fg' = Collection(gen, reason, IF bg = NoCollection THEN "NonConcurrent" ELSE "Foreground",
                                dump, begun)
            /\ UNCHANGED <<bg, count>>
      BY <1>1 DEF SuspendForGC
    <2>2. /\ ee = "running" /\ ee' = "fg" /\ fg = NoCollection /\ suspensionStart' = begun
          /\ UNCHANGED <<gcInProgress, currentBGC, ended, bg, count>>
      BY <2>1 DEF GcInv, GcTypeOK, Blocking, Suspend, OnGCSuspendEEBegin, parserVars
    <2>3. /\ fg' \in Collections /\ fg'.number = 0 /\ fg'.seen = FALSE /\ fg'.sent = {}
          /\ fg'.begun = begun
          /\ fg'.type = "NonConcurrent" \/ (fg'.type = "Foreground" /\ fg'.gen < 2)
      BY <2>1 DEF Collections, Collection
    <2>4. GcTypeOK'
      BY <2>2, <2>3 DEF GcInv, GcTypeOK
    <2>5. Follows(gcInProgress, fg)' /\ Follows(currentBGC, bg)'
      BY <2>2, <2>3, Nothing DEF GcInv, Follows
    <2>6. Numbered'
      BY <2>2, <2>3, Nothing DEF GcInv, GcTypeOK, Numbered
    <2>7. Blocking' /\ Background'
      BY <2>2, <2>3 DEF GcInv, Blocking, Background
    <2>8. ExactStep
      BY <2>2, <2>3, Nothing DEF ExactStep, Over
    <2> QED BY <2>4, <2>5, <2>6, <2>7, <2>8 DEF GcInv
  <1>2. ASSUME NEW begun \in BOOLEAN, NEW who \in {"bg", "other"}, Suspend(who, begun),
               \/ bg' = bg /\ (who = "other" \/ bg # NoCollection)
               \/ (bg = NoCollection /\ bg' = Collection(2, "alloc", "Background", FALSE, begun)),
               UNCHANGED <<fg, count>>
        PROVE  GcInv' /\ ExactStep
    <2>1. /\ ee = "running" /\ ee' = who /\ fg = NoCollection /\ suspensionStart' \in BOOLEAN
          /\ UNCHANGED <<gcInProgress, currentBGC, ended, fg, count>>
      BY <1>2 DEF GcInv, GcTypeOK, Blocking, Suspend, OnGCSuspendEEBegin, parserVars
    <2>2. /\ bg' \in Collections
          /\ \/ bg' = bg /\ (who = "other" \/ bg # NoCollection)
             \/ /\ bg = NoCollection /\ bg'.number = 0 /\ bg'.seen = FALSE /\ bg'.sent = {}
                /\ bg'.gen = 2 /\ bg'.type = "Background"
      <3>1. CASE bg' = bg /\ (who = "other" \/ bg # NoCollection)
        BY <3>1 DEF GcInv, GcTypeOK
      <3>2. CASE bg = NoCollection /\ bg' = Collection(2, "alloc", "Background", FALSE, begun)
        BY <3>2 DEF Collections, Collection
      <3> QED BY <1>2, <3>1, <3>2
    <2>3. GcTypeOK'
      BY <2>1, <2>2 DEF GcInv, GcTypeOK
    <2>4. Follows(gcInProgress, fg)' /\ Follows(currentBGC, bg)'
      BY <2>1, <2>2, Nothing DEF GcInv, Follows
    <2>5. Numbered'
      BY <2>1, <2>2, Nothing DEF GcInv, GcTypeOK, Numbered
    <2>6. Blocking' /\ Background'
      BY <2>1, <2>2, Nothing DEF GcInv, Blocking, Background
    <2>7. ExactStep
      BY <2>1, <2>2, Nothing DEF ExactStep, Over
    <2> QED BY <2>3, <2>4, <2>5, <2>6, <2>7 DEF GcInv
  <1> QED BY <1>1, <1>2 DEF Pause, SuspendForDump

\* GCStart: details are made anew, in _currentBGC for a background collection and
\* in _gcInProgress for another.
LEMMA StartStep ==
    ASSUME GcInv, GCStart
    PROVE  GcInv' /\ ExactStep
  <1>1. count \in Nat /\ count' = count + 1 /\ UNCHANGED <<ee, suspensionStart, ended>>
    BY DEF GCStart, OnGCStart, GcInv, GcTypeOK
  <1>2. CASE ee = "fg" /\ fg.number = 0 /\ fg' = Starting(fg) /\ OnGCStart(fg') /\ UNCHANGED bg
    <2>1. /\ fg' \in Collections /\ fg'.number = count + 1 /\ fg'.seen = TRUE /\ fg'.sent = {}
          /\ fg'.gen = fg.gen /\ fg'.type = fg.type /\ fg'.begun = fg.begun /\ fg.seen = FALSE
      <3>1. fg \in Collections /\ fg.seen = FALSE /\ fg.sent = {}
        BY <1>2 DEF GcInv, GcTypeOK, Numbered, Collections
      <3>2. fg' = [fg EXCEPT !.number = count + 1, !.seen = TRUE] /\ count + 1 \in Nat
        BY <1>1, <1>2 DEF Starting
      <3> QED BY <3>1, <3>2, Numbering, ZenonT(60)
    <2>2. gcInProgress' = InitializeGC(fg') /\ UNCHANGED currentBGC
      BY <1>2, <2>1 DEF OnGCStart, GcInv, Blocking
    <2>3. /\ gcInProgress' \in Details /\ gcInProgress'.Number = count + 1
          /\ gcInProgress'.Generation = fg.gen /\ gcInProgress'.Type = fg.type
          /\ gcInProgress'.Pauses = 0 /\ gcInProgress'.HasStats = FALSE
          /\ gcInProgress'.HasHistory = FALSE
      BY <2>1, <2>2, Initializing
    <2>4. GcTypeOK'
      BY <1>1, <1>2, <2>1, <2>2, <2>3 DEF GcInv, GcTypeOK
    <2>5. Follows(gcInProgress, fg)' /\ Follows(currentBGC, bg)'
      BY <1>2, <2>1, <2>2, <2>3 DEF GcInv, Follows
    <2>6. Numbered'
      BY <1>1, <1>2, <2>1 DEF GcInv, GcTypeOK, Collections, Numbered
    <2>7. Blocking' /\ Background'
      BY <1>1, <1>2, <2>1, <2>3 DEF GcInv, Blocking, Background
    <2>8. ExactStep
      BY <1>1, <1>2, <2>1 DEF ExactStep, Over
    <2> QED BY <2>4, <2>5, <2>6, <2>7, <2>8 DEF GcInv
  <1>3. CASE ee = "bg" /\ bg.number = 0 /\ bg' = Starting(bg) /\ OnGCStart(bg') /\ UNCHANGED fg
    <2>1. /\ bg' \in Collections /\ bg'.number = count + 1 /\ bg'.seen = TRUE /\ bg'.sent = {}
          /\ bg'.gen = bg.gen /\ bg'.type = bg.type /\ bg.seen = FALSE
      <3>1. bg \in Collections /\ bg.seen = FALSE /\ bg.sent = {}
        BY <1>3 DEF GcInv, GcTypeOK, Numbered, Collections
      <3>2. bg' = [bg EXCEPT !.number = count + 1, !.seen = TRUE] /\ count + 1 \in Nat
        BY <1>1, <1>3 DEF Starting
      <3> QED BY <3>1, <3>2, Numbering, ZenonT(60)
    <2>2. bg'.gen = 2 /\ bg'.type = "Background" /\ fg.seen = FALSE
      BY <1>3, <2>1, Nothing DEF GcInv, Background, Blocking
    <2>3. currentBGC' = InitializeGC(bg') /\ UNCHANGED gcInProgress
      BY <1>3, <2>2 DEF OnGCStart
    <2>4. /\ currentBGC' \in Details /\ currentBGC'.Number = count + 1
          /\ currentBGC'.Generation = bg'.gen /\ currentBGC'.Type = bg'.type
          /\ currentBGC'.HasStats = FALSE /\ currentBGC'.HasHistory = FALSE
      BY <2>1, <2>3, Initializing
    <2>5. GcTypeOK'
      BY <1>1, <1>3, <2>1, <2>3, <2>4 DEF GcInv, GcTypeOK
    <2>6. Follows(gcInProgress, fg)' /\ Follows(currentBGC, bg)'
      BY <1>3, <2>1, <2>3, <2>4 DEF GcInv, Follows
    <2>7. Numbered'
      BY <1>1, <1>3, <2>1 DEF GcInv, GcTypeOK, Collections, Numbered
    <2>8. Blocking' /\ Background'
      BY <1>1, <1>3, <2>1, <2>2, <2>3 DEF GcInv, Blocking, Background, Facts
    <2>9. ExactStep
      BY <1>1, <1>3, <2>1, <2>2 DEF ExactStep, Over
    <2> QED BY <2>5, <2>6, <2>7, <2>8, <2>9 DEF GcInv
  <1> QED BY <1>2, <1>3 DEF GCStart

\* What a blocking collection says goes to _gcInProgress if its GCStart was
\* delivered, and else to details that belong to no collection.
LEMMA BlockingReportStep ==
    ASSUME GcInv, NEW fact \in Facts,
           ee = "fg", fg.number # 0, fact \notin fg.sent, Report(fg, fact),
           fg' = [fg EXCEPT !.sent = @ \cup {fact}], UNCHANGED <<ee, bg, count>>
    PROVE  GcInv' /\ ExactStep
  <1>1. /\ fg \in Collections /\ bg \in Collections /\ count \in Nat
        /\ gcInProgress \in Details /\ currentBGC \in Details
    BY DEF GcInv, GcTypeOK
  <1>2. /\ fg' \in Collections /\ fg'.sent = fg.sent \cup {fact} /\ fg'.number = fg.number
        /\ fg'.seen = fg.seen /\ fg'.gen = fg.gen /\ fg'.type = fg.type /\ fg'.begun = fg.begun
    BY <1>1, Sending
  <1>3. /\ UNCHANGED <<ended, suspensionStart>>
        /\ gcInProgress' \in Details /\ currentBGC' \in Details
        /\ Follows(gcInProgress, fg)' /\ Follows(currentBGC, bg)'
        /\ gcInProgress'.Pauses = gcInProgress.Pauses
    <2>1. fg.number \in Nat /\ fg.number # -1
      BY <1>1 DEF Collections
    <2>2. CASE fg.seen
      <3>1. gcInProgress.Number # -1 /\ ~IsBackground(gcInProgress) /\ Follows(gcInProgress, fg)
        BY <2>1, <2>2 DEF GcInv, Follows, Blocking, IsBackground
      <3>2. CASE fact = "stats"
        <4>1. /\ gcInProgress' = [gcInProgress EXCEPT !.HasStats = TRUE, !.sizesOf = fg.number]
              /\ UNCHANGED <<ended, suspensionStart, currentBGC>>
          <5> DEFINE e == [gcInProgress EXCEPT !.HasStats = TRUE, !.sizesOf = fg.number]
          <5>1. ~IsBackground(e)
            BY <1>1, <2>1, <3>1, FillingStats DEF IsBackground
          <5> QED BY <3>1, <3>2, <5>1
                     DEF Report, OnGCHeapStats, GetCurrentGC, Continues, SetCurrentGC
        <4>2. /\ gcInProgress' \in Details /\ gcInProgress'.HasStats = TRUE
              /\ gcInProgress'.sizesOf = fg.number
              /\ gcInProgress'.HasHistory = gcInProgress.HasHistory
              /\ gcInProgress'.pressureOf = gcInProgress.pressureOf
              /\ gcInProgress'.Number = gcInProgress.Number
              /\ gcInProgress'.Generation = gcInProgress.Generation
              /\ gcInProgress'.Type = gcInProgress.Type
              /\ gcInProgress'.Pauses = gcInProgress.Pauses
          BY <1>1, <2>1, <4>1, FillingStats, ZenonT(60)
        <4>3. Follows(gcInProgress, fg)'
          BY <1>2, <2>2, <3>1, <3>2, <4>2 DEF Follows
        <4> QED BY <1>1, <4>1, <4>2, <4>3 DEF GcInv, Follows
      <3>3. CASE fact = "history"
        <4>1. /\ gcInProgress' = [gcInProgress EXCEPT !.HasHistory = TRUE, !.pressureOf = fg.number]
              /\ UNCHANGED <<ended, suspensionStart, currentBGC>>
          <5> DEFINE e == [gcInProgress EXCEPT !.HasHistory = TRUE, !.pressureOf = fg.number]
          <5>1. ~IsBackground(e)
            BY <1>1, <2>1, <3>1, FillingHistory DEF IsBackground
          <5> QED BY <3>1, <3>3, <5>1
                     DEF Report, OnGCGlobalHeapHistory, GetCurrentGC, Continues, SetCurrentGC
        <4>2. /\ gcInProgress' \in Details /\ gcInProgress'.HasHistory = TRUE
              /\ gcInProgress'.pressureOf = fg.number
              /\ gcInProgress'.HasStats = gcInProgress.HasStats
              /\ gcInProgress'.sizesOf = gcInProgress.sizesOf
              /\ gcInProgress'.Number = gcInProgress.Number
              /\ gcInProgress'.Generation = gcInProgress.Generation
              /\ gcInProgress'.Type = gcInProgress.Type
              /\ gcInProgress'.Pauses = gcInProgress.Pauses
          BY <1>1, <2>1, <4>1, FillingHistory, ZenonT(60)
        <4>3. Follows(gcInProgress, fg)'
          BY <1>2, <2>2, <3>1, <3>3, <4>2 DEF Follows
        <4> QED BY <1>1, <4>1, <4>2, <4>3 DEF GcInv, Follows
      <3> QED BY <3>2, <3>3 DEF Facts
    <2>3. CASE ~fg.seen
      <3>1. gcInProgress.Number = -1 /\ currentBGC.Number = -1 /\ ~bg.seen
        BY <2>3 DEF GcInv, Follows, Blocking
      <3>2. /\ UNCHANGED <<ended, suspensionStart, gcInProgress>>
            /\ currentBGC' \in Details /\ currentBGC'.Number = -1
        <4>1. CASE fact = "stats"
          <5> DEFINE e == [currentBGC EXCEPT !.HasStats = TRUE, !.sizesOf = currentBGC.sizesOf]
          <5>1. e \in Details /\ e.Number = -1
            BY <1>1, <3>1, FillingStats DEF Details
          <5>2. currentBGC' = e /\ UNCHANGED <<ended, suspensionStart, gcInProgress>>
            BY <3>1, <4>1, <5>1
               DEF Report, OnGCHeapStats, GetCurrentGC, Continues, SetCurrentGC
          <5> QED BY <5>1, <5>2
        <4>2. CASE fact = "history"
          BY <1>1, <3>1, <4>2 DEF Report, OnGCGlobalHeapHistory, GetCurrentGC
        <4> QED BY <4>1, <4>2 DEF Facts
      <3> QED BY <1>1, <1>2, <2>3, <3>1, <3>2 DEF Follows
    <2> QED BY <2>2, <2>3
  <1>4. GcTypeOK'
    BY <1>1, <1>2, <1>3 DEF GcInv, GcTypeOK
  <1>5. Numbered'
    BY <1>2 DEF GcInv, Numbered
  <1>6. Blocking' /\ Background'
    BY <1>2, <1>3 DEF GcInv, Blocking, Background
  <1>7. ExactStep
    BY <1>2, <1>3 DEF ExactStep, Over
  <1> QED BY <1>3, <1>4, <1>5, <1>6, <1>7 DEF GcInv

\* What a background collection says goes to _currentBGC, since no other one runs;
\* with both facts it is over, and listeners hear of it in the same step.
LEMMA BackgroundReportStep ==
    ASSUME GcInv, NEW fact \in Facts,
           ee = "running", bg.number # 0, fact \notin bg.sent, Report(bg, fact),
           bg' = IF bg.sent \cup {fact} = Facts THEN NoCollection
                 ELSE [bg EXCEPT !.sent = @ \cup {fact}],
           UNCHANGED <<ee, fg, count>>
    PROVE  GcInv' /\ ExactStep
  <1> DEFINE more == [bg EXCEPT !.sent = @ \cup {fact}]
  <1>1. /\ fg \in Collections /\ bg \in Collections /\ count \in Nat
        /\ gcInProgress \in Details /\ currentBGC \in Details
        /\ bg.number \in Nat /\ bg.number # -1 /\ bg.gen = 2 /\ bg.type = "Background"
    BY Nothing DEF GcInv, GcTypeOK, Background, Collections
  <1>2. fg = NoCollection /\ fg.seen = FALSE /\ gcInProgress.Number = -1
    BY Nothing DEF GcInv, Blocking, Follows
  <1>3. /\ more \in Collections /\ more.sent = bg.sent \cup {fact} /\ more.number = bg.number
        /\ more.seen = bg.seen /\ more.gen = bg.gen /\ more.type = bg.type
    BY <1>1, Sending
  <1>4. bg.sent \subseteq Facts /\ Follows(currentBGC, bg)
    BY DEF GcInv, Background
  <1>5. /\ bg' = NoCollection \/ (bg' = more /\ bg.sent \cup {fact} # Facts)
        /\ bg.sent \cup {fact} # Facts => bg' = more
    OBVIOUS
  <1> HIDE DEF more
  <1>6. CASE ~bg.seen
    <2>1. currentBGC.Number = -1
      BY <1>4, <1>6 DEF Follows
    <2>2. /\ UNCHANGED <<ended, suspensionStart, gcInProgress>>
          /\ currentBGC' \in Details /\ currentBGC'.Number = -1
      <3>1. CASE fact = "stats"
        <4> DEFINE e == [currentBGC EXCEPT !.HasStats = TRUE, !.sizesOf = currentBGC.sizesOf]
        <4>1. e \in Details /\ e.Number = -1
          BY <1>1, <2>1, FillingStats DEF Details
        <4>2. currentBGC' = e /\ UNCHANGED <<ended, suspensionStart, gcInProgress>>
          BY <1>2, <2>1, <3>1, <4>1
             DEF Report, OnGCHeapStats, GetCurrentGC, Continues, SetCurrentGC
        <4> QED BY <4>1, <4>2
      <3>2. CASE fact = "history"
        BY <1>1, <1>2, <2>1, <3>2 DEF Report, OnGCGlobalHeapHistory, GetCurrentGC
      <3> QED BY <3>1, <3>2 DEF Facts
    <2>3. bg' \in Collections /\ bg'.seen = FALSE /\ bg'.number <= count /\ bg'.sent \subseteq Facts
          /\ (bg'.number = 0 => bg'.sent = {})
          /\ (bg' = NoCollection \/ (bg'.gen = 2 /\ bg'.type = "Background"))
      <3>1. bg.seen = FALSE /\ bg.number <= count /\ 0 <= count
        BY <1>1, <1>6 DEF GcInv, Numbered, Collections
      <3>2. CASE bg' = NoCollection
        BY <3>1, <3>2, Nothing
      <3>3. CASE bg' = more
        BY <1>1, <1>3, <1>4, <3>1, <3>3
      <3> QED BY <1>5, <3>2, <3>3
    <2>4. GcTypeOK'
      BY <1>1, <2>2, <2>3 DEF GcInv, GcTypeOK
    <2>5. Follows(gcInProgress, fg)' /\ Follows(currentBGC, bg)'
      BY <1>2, <2>2, <2>3 DEF Follows
    <2>6. Numbered'
      BY <1>2, <2>3, Nothing DEF GcInv, Numbered
    <2>7. Blocking' /\ Background'
      BY <1>2, <2>2, <2>3 DEF GcInv, Blocking, Background
    <2>8. ExactStep
      BY <1>2, <1>6, <2>2 DEF ExactStep, Over
    <2> QED BY <2>4, <2>5, <2>6, <2>7, <2>8 DEF GcInv
  <1>7. ASSUME bg.seen
        PROVE  /\ UNCHANGED <<suspensionStart, gcInProgress>>
               /\ \/ /\ bg' = NoCollection /\ currentBGC' = ResetGC
                     /\ ended'.number = bg.number /\ ended'.sizesOf = bg.number
                     /\ ended'.pressureOf = bg.number
                  \/ /\ bg' = more /\ bg.sent \cup {fact} # Facts /\ UNCHANGED ended
                     /\ currentBGC' \in Details /\ Follows(currentBGC, bg)'
    <2>1. currentBGC.Number = bg.number /\ currentBGC.Number # -1 /\ bg.seen /\ Follows(currentBGC, bg)
      BY <1>1, <1>4, <1>7 DEF Follows
    <2>2. CASE fact = "stats"
      <3> DEFINE e == [currentBGC EXCEPT !.HasStats = TRUE, !.sizesOf = bg.number]
      <3>1. /\ e \in Details /\ e.HasStats = TRUE /\ e.sizesOf = bg.number
            /\ e.HasHistory = currentBGC.HasHistory /\ e.pressureOf = currentBGC.pressureOf
            /\ e.Number = bg.number /\ e.Generation = bg.gen /\ e.Type = bg.type
            /\ IsBackground(e)
        BY <1>1, <2>1, FillingStats, ZenonT(60) DEF IsBackground, Follows
      <3>2. UNCHANGED suspensionStart /\ IF e.HasHistory THEN Ends(e) ELSE Continues(e)
        BY <1>2, <2>1, <2>2, <3>1 DEF Report, OnGCHeapStats, GetCurrentGC
      <3> HIDE DEF e
      <3>3. CASE e.HasHistory
        <4>1. /\ ended' = [number |-> e.Number, pauses |-> e.Pauses,
                           sizesOf |-> e.sizesOf, pressureOf |-> e.pressureOf]
              /\ currentBGC' = ResetGC /\ UNCHANGED gcInProgress
          BY <1>2, <3>2, <3>3 DEF Ends, SetCurrentGC
        <4>2. ended'.number = bg.number /\ ended'.sizesOf = bg.number /\ ended'.pressureOf = bg.number
          BY <2>1, <3>1, <3>3, <4>1 DEF Follows
        <4>3. bg' = NoCollection
          BY <1>4, <2>1, <2>2, <3>1, <3>3 DEF Follows, Facts
        <4> QED BY <3>2, <4>1, <4>2, <4>3
      <3>4. CASE ~e.HasHistory
        <4>1. currentBGC' = e /\ UNCHANGED <<gcInProgress, ended>>
          BY <1>2, <3>2, <3>4 DEF Continues, SetCurrentGC
        <4>2. bg.sent \cup {fact} # Facts
          BY <2>1, <2>2, <3>1, <3>4 DEF Follows, Facts
        <4>3. bg' = more
          BY <1>5, <4>2
        <4>4. /\ bg'.seen = bg.seen /\ bg'.number = bg.number /\ bg'.gen = bg.gen
              /\ bg'.type = bg.type /\ bg'.sent = bg.sent \cup {fact}
          BY <1>3, <4>3
        <4>5. Follows(currentBGC, bg)'
          BY <2>1, <2>2, <3>1, <3>4, <4>1, <4>4 DEF Follows
        <4> QED BY <3>1, <3>2, <4>1, <4>2, <4>3, <4>5
      <3> QED BY <3>3, <3>4
    <2>3. CASE fact = "history"
      <3> DEFINE e == [currentBGC EXCEPT !.HasHistory = TRUE, !.pressureOf = bg.number]
      <3>1. /\ e \in Details /\ e.HasHistory = TRUE /\ e.pressureOf = bg.number
            /\ e.HasStats = currentBGC.HasStats /\ e.sizesOf = currentBGC.sizesOf
            /\ e.Number = bg.number /\ e.Generation = bg.gen /\ e.Type = bg.type
            /\ IsBackground(e)
        BY <1>1, <2>1, FillingHistory, ZenonT(60) DEF IsBackground, Follows
      <3>2. UNCHANGED suspensionStart /\ IF e.HasStats THEN Ends(e) ELSE Continues(e)
        BY <1>2, <2>1, <2>3, <3>1 DEF Report, OnGCGlobalHeapHistory, GetCurrentGC
      <3> HIDE DEF e
      <3>3. CASE e.HasStats
        <4>1. /\ ended' = [number |-> e.Number, pauses |-> e.Pauses,
                           sizesOf |-> e.sizesOf, pressureOf |-> e.pressureOf]
              /\ currentBGC' = ResetGC /\ UNCHANGED gcInProgress
          BY <1>2, <3>2, <3>3 DEF Ends, SetCurrentGC
        <4>2. ended'.number = bg.number /\ ended'.sizesOf = bg.number /\ ended'.pressureOf = bg.number
          BY <2>1, <3>1, <3>3, <4>1 DEF Follows
        <4>3. bg' = NoCollection
          BY <1>4, <2>1, <2>3, <3>1, <3>3 DEF Follows, Facts
        <4> QED BY <3>2, <4>1, <4>2, <4>3
      <3>4. CASE ~e.HasStats
        <4>1. currentBGC' = e /\ UNCHANGED <<gcInProgress, ended>>
          BY <1>2, <3>2, <3>4 DEF Continues, SetCurrentGC
        <4>2. bg.sent \cup {fact} # Facts
          BY <2>1, <2>3, <3>1, <3>4 DEF Follows, Facts
        <4>3. bg' = more
          BY <1>5, <4>2
        <4>4. /\ bg'.seen = bg.seen /\ bg'.number = bg.number /\ bg'.gen = bg.gen
              /\ bg'.type = bg.type /\ bg'.sent = bg.sent \cup {fact}
          BY <1>3, <4>3
        <4>5. Follows(currentBGC, bg)'
          BY <2>1, <2>3, <3>1, <3>4, <4>1, <4>4 DEF Follows
        <4> QED BY <3>1, <3>2, <4>1, <4>2, <4>3, <4>5
      <3> QED BY <3>3, <3>4
    <2> QED BY <2>2, <2>3 DEF Facts
  <1>8. CASE /\ bg.seen /\ UNCHANGED <<suspensionStart, gcInProgress>>
             /\ bg' = NoCollection /\ currentBGC' = ResetGC
             /\ ended'.number = bg.number /\ ended'.sizesOf = bg.number
             /\ ended'.pressureOf = bg.number
    <2>1. GcTypeOK'
      BY <1>1, <1>8, Nothing DEF GcInv, GcTypeOK
    <2>2. Follows(gcInProgress, fg)' /\ Follows(currentBGC, bg)'
      BY <1>2, <1>8, Nothing DEF Follows
    <2>3. Numbered'
      <3>1. /\ fg'.number = 0 /\ fg'.seen = FALSE /\ fg'.sent = {} /\ count' \in Nat
            /\ bg'.number = 0 /\ bg'.seen = FALSE /\ bg'.sent = {}
        BY <1>1, <1>2, <1>8, Nothing
      <3> QED BY <3>1 DEF Numbered
    <2>4. Blocking' /\ Background'
      BY <1>2, <1>8, Nothing DEF GcInv, Blocking, Background
    <2>5. bg \in Over
      BY <1>2, <1>8, Nothing DEF Over
    <2>6. Over \subseteq {bg}
      BY <1>2 DEF Over
    <2>7. ExactStep
      BY <1>1, <1>8, <2>5, <2>6 DEF ExactStep
    <2> QED BY <2>1, <2>2, <2>3, <2>4, <2>7 DEF GcInv
  <1>9. CASE /\ bg.seen /\ UNCHANGED <<suspensionStart, gcInProgress, ended>>
             /\ bg' = more /\ bg.sent \cup {fact} # Facts
             /\ currentBGC' \in Details /\ Follows(currentBGC, bg)'
    <2>1. GcTypeOK'
      BY <1>1, <1>3, <1>9 DEF GcInv, GcTypeOK
    <2>2. Follows(gcInProgress, fg)'
      BY <1>2, <1>9 DEF Follows
    <2>3. Numbered'
      BY <1>1, <1>2, <1>3, <1>9, Nothing DEF GcInv, Numbered
    <2>4. Blocking' /\ Background'
      BY <1>1, <1>2, <1>3, <1>4, <1>9 DEF GcInv, Blocking, Background
    <2>5. ExactStep
      BY <1>2, <1>3, <1>9 DEF ExactStep, Over
    <2> QED BY <1>9, <2>1, <2>2, <2>3, <2>4, <2>5 DEF GcInv
  <1> QED BY <1>6, <1>7, <1>8, <1>9

\* OnGCRestartEEEnd: a blocking collection is over, and a background one is not.
LEMMA RestartStep ==
    ASSUME GcInv, RestartEE
    PROVE  GcInv' /\ ExactStep
  <1> DEFINE k == IF suspensionStart THEN 1 ELSE 0
  <1>1. /\ fg \in Collections /\ bg \in Collections /\ count \in Nat /\ k \in Nat
        /\ gcInProgress \in Details /\ currentBGC \in Details
        /\ fg.number \in Nat /\ bg.number \in Nat /\ fg.number # -1 /\ bg.number # -1
    BY DEF GcInv, GcTypeOK, Collections
  <1>2. /\ ee' = "running" /\ fg' = NoCollection /\ suspensionStart' = FALSE /\ UNCHANGED <<bg, count>>
        /\ OnGCRestartEEEnd
    BY DEF RestartEE, OnGCRestartEEEnd
  <1>3. Numbered'
    <2>1. /\ fg'.number = 0 /\ fg'.seen = FALSE /\ fg'.sent = {}
      BY <1>2, Nothing
    <2> QED BY <1>1, <1>2, <2>1 DEF GcInv, Numbered
  <1>4. Blocking' /\ Background'
    BY <1>2, Nothing DEF GcInv, Blocking, Background
  <1>5. ASSUME fg.seen
        PROVE  GcInv' /\ ExactStep
    <2> DEFINE e == [gcInProgress EXCEPT !.Pauses = @ + k]
    <2>1. ee = "fg" /\ Facts \subseteq fg.sent /\ fg.number # 0 /\ fg.number # bg.number
      BY <1>5, Nothing DEF RestartEE, GcInv, Blocking, Numbered
    <2>2. /\ gcInProgress.Number = fg.number /\ gcInProgress.Number # -1
          /\ gcInProgress.Generation = fg.gen /\ gcInProgress.Type = fg.type
          /\ gcInProgress.sizesOf = fg.number /\ gcInProgress.pressureOf = fg.number
          /\ gcInProgress.Pauses = 0
      BY <1>1, <1>5, <2>1 DEF GcInv, Follows, Blocking, Facts
    <2>3. /\ e.Number = fg.number /\ e.Generation = fg.gen /\ e.Type = fg.type
          /\ e.sizesOf = fg.number /\ e.pressureOf = fg.number /\ e.Pauses = 0 + k
      BY <1>1, <2>2, FillingPauses
    <2>4. fg.gen < 2 \/ fg.type = "NonConcurrent"
      BY <2>1 DEF GcInv, Blocking
    <2>5. fg.begun = suspensionStart
      BY <2>1 DEF GcInv, Blocking
    <2>6. Ends(e)
      BY <1>2, <2>2, <2>3, <2>4 DEF OnGCRestartEEEnd, GetCurrentGC
    <2>7. e.Pauses = IF fg.begun THEN 1 ELSE 0
      BY <1>1, <2>3, <2>5
    <2> HIDE DEF e
    <2>8. /\ ended' = [number |-> e.Number, pauses |-> e.Pauses,
                       sizesOf |-> e.sizesOf, pressureOf |-> e.pressureOf]
          /\ gcInProgress' = ResetGC /\ UNCHANGED currentBGC
      BY <2>2, <2>6 DEF Ends, SetCurrentGC
    <2>9. /\ ended'.number = fg.number /\ ended'.sizesOf = fg.number /\ ended'.pressureOf = fg.number
          /\ ended'.pauses = IF fg.begun THEN 1 ELSE 0
      BY <2>3, <2>7, <2>8
    <2>10. GcTypeOK'
      BY <1>1, <1>2, <2>8, Nothing DEF GcTypeOK
    <2>11. Follows(gcInProgress, fg)' /\ Follows(currentBGC, bg)'
      BY <1>2, <2>8, Nothing DEF GcInv, Follows
    <2>12. fg \in Over
      BY <1>2, <1>5, <2>1, Nothing DEF Over
    <2>13. Over \subseteq {fg}
      BY <1>2 DEF Over
    <2>14. ExactStep
      BY <2>9, <2>12, <2>13 DEF ExactStep
    <2> QED BY <1>3, <1>4, <2>10, <2>11, <2>14 DEF GcInv
  <1>6. ASSUME ~fg.seen
        PROVE  GcInv' /\ ExactStep
    <2> DEFINE e == [currentBGC EXCEPT !.Pauses = @ + k]
    <2>1. gcInProgress.Number = -1
      BY <1>6 DEF GcInv, Follows
    <2>2. /\ e \in Details /\ e.Number = currentBGC.Number /\ e.Generation = currentBGC.Generation
          /\ e.Type = currentBGC.Type /\ e.HasStats = currentBGC.HasStats
          /\ e.sizesOf = currentBGC.sizesOf /\ e.HasHistory = currentBGC.HasHistory
          /\ e.pressureOf = currentBGC.pressureOf
      BY <1>1, FillingPauses, ZenonT(60)
    <2>3. UNCHANGED <<gcInProgress, ended>> /\ (currentBGC' = currentBGC \/ currentBGC' = e)
      <3>1. CASE currentBGC.Number = -1
        BY <1>2, <2>1, <3>1 DEF OnGCRestartEEEnd, GetCurrentGC
      <3>2. CASE currentBGC.Number # -1
        <4>1. e.Generation = 2 /\ e.Type = "Background"
          BY <2>2, <3>2, Nothing DEF GcInv, Follows, Background
        <4>2. Continues(e)
          BY <1>2, <2>1, <3>2, <4>1 DEF OnGCRestartEEEnd, GetCurrentGC
        <4> QED BY <2>1, <4>2 DEF Continues, SetCurrentGC
      <3> QED BY <3>1, <3>2
    <2> HIDE DEF e
    <2>4. GcTypeOK'
      BY <1>1, <1>2, <2>2, <2>3, Nothing DEF GcTypeOK
    <2>5. Follows(gcInProgress, fg)'
      BY <1>2, <2>1, <2>3, Nothing DEF Follows
    <2>6. Follows(currentBGC, bg)'
      BY <1>2, <2>2, <2>3 DEF GcInv, Follows
    <2>7. ExactStep
      BY <1>2, <1>6, <2>3 DEF ExactStep, Over
    <2> QED BY <1>3, <1>4, <2>4, <2>5, <2>6, <2>7 DEF GcInv
  <1> QED BY <1>5, <1>6

\* The nodes of a dump are not what the parser waits for.
LEMMA DumpStep ==
    ASSUME GcInv, NEW b \in Batches, GCDumps(b)
    PROVE  GcInv' /\ ExactStep
  <1>1. /\ UNCHANGED <<ee, bg, count, gcInProgress, currentBGC, suspensionStart, ended>>
        /\ ee = "fg" /\ fg.number # 0 /\ fg \in Collections
        /\ fg' = [fg EXCEPT !.sent = @ \cup {b}]
    BY DEF GCDumps, parserVars, GcInv, GcTypeOK
  <1>2. /\ fg' \in Collections /\ fg'.sent = fg.sent \cup {b} /\ fg'.number = fg.number
        /\ fg'.seen = fg.seen /\ fg'.gen = fg.gen /\ fg'.type = fg.type /\ fg'.begun = fg.begun
    BY <1>1, Sending
  <1>3. b # "stats" /\ b # "history"
    BY EventsAssumption DEF Facts
  <1>4. GcTypeOK'
    BY <1>1, <1>2 DEF GcInv, GcTypeOK
  <1>5. Follows(gcInProgress, fg)'
    BY <1>1, <1>2, <1>3 DEF GcInv, Follows
  <1>6. Follows(currentBGC, bg)'
    BY <1>1 DEF GcInv, Follows
  <1>7. Numbered'
    BY <1>1, <1>2 DEF GcInv, Numbered
  <1>8. Blocking' /\ Background'
    BY <1>1, <1>2 DEF GcInv, Blocking, Background
  <1>9. ExactStep
    BY <1>1, <1>2 DEF ExactStep, Over
  <1> QED BY <1>4, <1>5, <1>6, <1>7, <1>8, <1>9 DEF GcInv

\* Nothing happens to the collections and to what the parser knows of them.
LEMMA QuietStep ==
    ASSUME GcInv, ListenersReturn \/ UNCHANGED gcVars
    PROVE  GcInv' /\ ExactStep
  <1>1. UNCHANGED <<ee, fg, bg, count, gcInProgress, currentBGC, suspensionStart>>
        /\ ended' \in {ended, NoEnd}
    BY DEF ListenersReturn, gcVars, runtimeVars, parserVars
  <1>2. GcInv'
    BY <1>1 DEF GcInv, GcTypeOK, Follows, Numbered, Blocking, Background
  <1>3. ExactStep
    BY <1>1 DEF ExactStep, Over
  <1> QED BY <1>2, <1>3

\* Every event of the runtime keeps the parser's invariant, and what it makes the
\* parser report is exact.
LEMMA GcStep ==
    ASSUME GcInv, GcNext \/ UNCHANGED gcVars
    PROVE  GcInv' /\ ExactStep
  <1>1. ASSUME NEW fact \in Facts, GCReports(fact)
        PROVE  GcInv' /\ ExactStep
    BY <1>1, BlockingReportStep, BackgroundReportStep DEF GCReports
  <1> QED BY <1>1, SuspendStep, StartStep, RestartStep, DumpStep, QuietStep DEF GcNext

-----------------------------------------------------------------------------
\* What HeapSnapshotManager does to the collections: it makes the runtime dump
\* the heap, and returns from OnGarbageCollectionEnd.
LEMMA ManagerStep == [Next]_vars => GcNext \/ UNCHANGED gcVars
  <1>1. ASSUME Unrelated \/ Collect
        PROVE  GcNext
    BY <1>1 DEF Unrelated, Collect, CollectForSession, Starts, GoesOn, OnBulkNodes, GcNext
  <1>2. ASSUME Callback
        PROVE  ListenersReturn \/ UNCHANGED gcVars
    BY <1>2
       DEF Callback, OnGarbageCollectionEnd, OnEndGCDump, StartAsyncSnapshotIfNeeded, Schedule,
       CallbackReturns, ListenersReturn, gcVars, parserVars
  <1>3. ASSUME Tick \/ Loop \/ StopImpl \/ GetAndClearHeapSnapshotText
        PROVE  UNCHANGED gcVars
    BY <1>3
       DEF Tick, Loop, StopImpl, GetAndClearHeapSnapshotText, NothingToDo, Cleanup, StopSession,
       ForgetSession, OnCleanupDone, StartFlagged, StartGCDump, DumpBegins, SessionOpens,
       SessionFails, SessionReturns
  <1> QED BY <1>1, <1>2, <1>3 DEF Next, GcNext, vars

\* The parser's two records of collections (_gcInProgress and _currentBGC) follow
\* the blocking and the background collection of the runtime, for any number of
\* collections, whether or not their first events were delivered.
THEOREM ParserFollowsRuntime == Spec => []GcInv
  <1>1. Init => GcInv
    BY GcInitially DEF Init
  <1>2. GcInv /\ [Next]_vars => GcInv'
    BY GcStep, ManagerStep
  <1> QED BY <1>1, <1>2, PTL DEF Spec

\* Listeners are told of every collection that was seen to start, once, when it is
\* over and with its own data (OnGCRestartEEEnd, OnGCHeapStats and
\* OnGCGlobalHeapHistory), for any number of collections.
THEOREM ListenersHearExactEnds == Spec => EndsAreExact
  <1>1. GcInv /\ [Next]_vars => [ExactStep]_gcVars
    BY GcStep, ManagerStep
  <1> QED BY <1>1, ParserFollowsRuntime, PTL DEF Spec, EndsAreExact

-----------------------------------------------------------------------------
(***************************************************************************)
(* The manager of heap snapshots.                                          *)
(***************************************************************************)
\* What is outside of the manager's thread leaves its sessions alone.
LEMMA OnlyLoopsSessions ==
    ASSUME [Next]_vars, ~Loop
    PROVE  UNCHANGED <<loop, session, open, opened>>
  <1>1. CASE Unrelated
    BY <1>1 DEF Unrelated, managerVars, sessionVars
  <1>2. CASE Collect
    BY <1>2 DEF Collect, CollectForSession, Starts, GoesOn, OnBulkNodes, sessionVars
  <1>3. CASE Callback
    BY <1>3 DEF Callback, OnGarbageCollectionEnd, OnEndGCDump, StartAsyncSnapshotIfNeeded, Schedule,
       sessionVars
  <1>4. CASE Tick \/ StopImpl \/ GetAndClearHeapSnapshotText
    BY <1>4 DEF Tick, StopImpl, GetAndClearHeapSnapshotText, sessionVars
  <1>5. CASE UNCHANGED vars
    BY <1>5 DEF vars, managerVars, sessionVars
  <1> QED BY <1>1, <1>2, <1>3, <1>4, <1>5 DEF Next

\* _session follows the session that is open.
LEMMA SessionStep ==
    ASSUME SessionInv, [Next]_vars
    PROVE  SessionInv'
  <1>1. CASE ~Loop
    BY <1>1, OnlyLoopsSessions DEF SessionInv
  <1> USE DEF SessionInv, LoopPlaces, Opening, Iterated, sessionVars
  <1>2. CASE NothingToDo \/ Cleanup \/ OnCleanupDone \/ StartFlagged \/ DumpBegins
    BY <1>2 DEF NothingToDo, Cleanup, OnCleanupDone, StartFlagged, DumpBegins
  <1>3. CASE StopSession
    BY <1>3 DEF StopSession
  <1>4. CASE ForgetSession
    BY <1>4 DEF ForgetSession
  <1>5. CASE StartGCDump
    BY <1>5 DEF StartGCDump
  <1>6. CASE SessionOpens
    BY <1>6 DEF SessionOpens
  <1>7. CASE SessionFails
    BY <1>7 DEF SessionFails
  <1>8. CASE SessionReturns
    BY <1>8 DEF SessionReturns
  <1> QED BY <1>1, <1>2, <1>3, <1>4, <1>5, <1>6, <1>7, <1>8 DEF Loop

\* What the manager's own steps leave alone of the collections.
LEMMA OnlyCollects ==
    ASSUME Tick \/ Loop \/ StopImpl \/ GetAndClearHeapSnapshotText \/ UNCHANGED vars
    PROVE  UNCHANGED <<ee, fg, bg, count, ended, callback>>
  <1>1. CASE Tick \/ StopImpl \/ GetAndClearHeapSnapshotText
    BY <1>1 DEF Tick, StopImpl, GetAndClearHeapSnapshotText, gcVars, runtimeVars, parserVars
  <1>2. CASE Loop
    <2>1. UNCHANGED <<gcVars, callback>>
      BY <1>2 DEF Loop, NothingToDo, Cleanup, StopSession, ForgetSession, OnCleanupDone,
         StartFlagged, StartGCDump, DumpBegins, SessionOpens, SessionFails, SessionReturns
    <2> QED BY <2>1 DEF gcVars, runtimeVars, parserVars
  <1>3. CASE UNCHANGED vars
    BY <1>3 DEF vars, gcVars, runtimeVars, parserVars, managerVars
  <1> QED BY <1>1, <1>2, <1>3

\* A collection begins with SuspendEE.
LEMMA Suspending ==
    ASSUME GcInv, CallbackInv, NEW gen, NEW reason, NEW dump \in BOOLEAN,
           dump => gen = 2 /\ reason = "induced", SuspendForGC(gen, reason, dump)
    PROVE  /\ ended' = NoEnd /\ ended = NoEnd /\ callback = "none" /\ ee = "running" /\ fg = NoCollection
           /\ fg'.number = 0 /\ fg'.dump = dump
           /\ dump => fg'.reason = "induced" /\ fg'.gen = 2 /\ fg'.type = "NonConcurrent"
  <1>1. PICK begun \in BOOLEAN :
           /\ gen = 2 => bg = NoCollection
           /\ Suspend("fg", begun)
           /\ fg' = Collection(gen, reason, IF bg = NoCollection THEN "NonConcurrent" ELSE "Foreground",
                               dump, begun)
    BY DEF SuspendForGC
  <1>2. ended = NoEnd /\ ended' = ended /\ ee = "running"
    BY <1>1 DEF Suspend, Quiet, OnGCSuspendEEBegin, parserVars
  <1>3. callback = "none" /\ fg = NoCollection
    BY <1>2 DEF CallbackInv, GcInv, Blocking
  <1>4. /\ fg'.number = 0 /\ fg'.dump = dump /\ fg'.reason = reason /\ fg'.gen = gen
        /\ fg'.type = IF bg = NoCollection THEN "NonConcurrent" ELSE "Foreground"
    BY <1>1 DEF Collection
  <1> QED BY <1>1, <1>2, <1>3, <1>4

\* The runtime goes on with a collection.
LEMMA GoingOn ==
    ASSUME GcInv, CallbackInv, GoesOn
    PROVE  /\ callback = "none" /\ ended = NoEnd
           /\ callback' = IF ended' # NoEnd THEN "end" ELSE "none"
           /\ ended' # NoEnd => ee' = "running" /\ ended'.number \in Nat \ {0}
           /\ \/ /\ fg'.dump = fg.dump /\ fg'.number = fg.number /\ fg'.seen = fg.seen
                 /\ fg'.reason = fg.reason /\ fg'.gen = fg.gen /\ fg'.type = fg.type
                 /\ fg.dump => ended' = NoEnd
              \/ fg' = NoCollection /\ (fg.dump => ended'.number = fg.number /\ fg.number # 0)
  <1>1. ended = NoEnd /\ callback = "none" /\ callback' = IF ended' # NoEnd THEN "end" ELSE "none"
    BY DEF GoesOn, RestartEE, GCReports, Quiet, CallbackInv
  <1>2. ExactStep
    BY GcStep DEF GoesOn, GcNext
  <1>3. fg \in Collections /\ bg \in Collections
    BY DEF GcInv, GcTypeOK
  <1>4. ASSUME NEW c \in Over PROVE c.number \in Nat \ {0} /\ c.seen
    BY <1>3, <1>4 DEF Over, GcInv, Numbered, Collections
  <1>5. ended' # NoEnd => ended'.number \in Nat \ {0}
    BY <1>1, <1>2, <1>4 DEF ExactStep
  <1>6. fg.dump => ee = "fg"
    BY DEF GcInv, Blocking, NoCollection, Collection
  <1>7. CASE RestartEE
    <2>1. ee' = "running" /\ fg' = NoCollection /\ bg' = bg
      BY <1>7 DEF RestartEE
    <2>2. ASSUME fg.dump PROVE ended'.number = fg.number /\ fg.number # 0
      <3>1. fg.number # 0
        BY <1>6, <1>7, <2>2 DEF RestartEE, GcInv, Numbered, Facts
      <3>2. fg \in Over
        BY <2>1, <2>2, <3>1, Nothing DEF Over, CallbackInv, GcInv, Numbered
      <3> QED BY <1>2, <3>1, <3>2 DEF ExactStep
    <2> QED BY <1>1, <1>5, <2>1, <2>2
  <1>8. ASSUME NEW fact \in Facts, GCReports(fact), ee = "fg"
        PROVE  /\ fg'.dump = fg.dump /\ fg'.number = fg.number /\ fg'.seen = fg.seen
               /\ fg'.reason = fg.reason /\ fg'.gen = fg.gen /\ fg'.type = fg.type
               /\ ended' = NoEnd
    <2>1. fg' = [fg EXCEPT !.sent = @ \cup {fact}] /\ bg' = bg
      BY <1>8 DEF GCReports
    <2>2. /\ fg'.dump = fg.dump /\ fg'.number = fg.number /\ fg'.seen = fg.seen
          /\ fg'.reason = fg.reason /\ fg'.gen = fg.gen /\ fg'.type = fg.type
      BY <1>3, <2>1 DEF Collections
    <2>3. Over = {}
      BY <2>1, <2>2 DEF Over
    <2>4. ended' = NoEnd
      BY <1>1, <1>2, <2>3 DEF ExactStep
    <2> QED BY <2>2, <2>4
  <1>9. ASSUME NEW fact \in Facts, GCReports(fact), ee # "fg"
        PROVE  ee' = "running" /\ fg' = fg
    BY <1>9 DEF GCReports
  <1>10. CASE \E fact \in Facts : GCReports(fact)
    <2>1. PICK fact \in Facts : GCReports(fact)
      BY <1>10
    <2>2. CASE ee = "fg"
      BY <1>1, <2>1, <2>2, <1>8
    <2>3. CASE ee # "fg"
      BY <1>1, <1>5, <1>6, <2>1, <2>3, <1>9
    <2> QED BY <2>2, <2>3
  <1> QED BY <1>7, <1>10 DEF GoesOn

\* A collection starts: GCStart.
LEMMA Beginning ==
    ASSUME GcInv, CallbackInv, GCStart
    PROVE  /\ callback = "none" /\ ended = NoEnd /\ ended' = NoEnd
           /\ \/ /\ fg.number = 0 /\ fg'.number \in Nat \ {0} /\ fg'.seen = TRUE /\ fg'.dump = fg.dump
                 /\ fg'.reason = fg.reason /\ fg'.gen = fg.gen /\ fg'.type = fg.type
                 /\ fg' # fg
              \/ fg' = fg /\ ~fg.dump /\ bg'.type = "Background"
  <1>1. ended = NoEnd /\ callback = "none" /\ ended' = NoEnd
    BY DEF GCStart, OnGCStart, Quiet, CallbackInv
  <1>2. fg \in Collections /\ bg \in Collections /\ count \in Nat
    BY DEF GcInv, GcTypeOK
  <1>3. CASE fg.number = 0 /\ fg' = Starting(fg)
    <2>1. count + 1 \in Nat \ {0}
      BY <1>2
    <2>2. fg'.number = count + 1 /\ fg'.seen = TRUE
      BY <1>2, <1>3, <2>1, Numbering, ZenonT(60) DEF Starting
    <2>3. /\ fg'.dump = fg.dump /\ fg'.reason = fg.reason /\ fg'.gen = fg.gen
          /\ fg'.type = fg.type
      BY <1>2, <1>3 DEF Starting, Collections
    <2>4. fg' # fg
      BY <1>3, <2>1, <2>2
    <2> QED BY <1>1, <1>3, <2>1, <2>2, <2>3, <2>4
  <1>4. CASE ee = "bg" /\ bg' = Starting(bg) /\ UNCHANGED fg
    <2>1. bg.type = "Background" /\ ~fg.dump
      BY <1>4 DEF GcInv, Background, Blocking, NoCollection, Collection
    <2>2. bg'.type = bg.type
      BY <1>2, <1>4 DEF Starting, Collections
    <2> QED BY <1>1, <1>4, <2>1, <2>2
  <1> QED BY <1>3, <1>4 DEF GCStart

\* The callback runs for a collection that is over.
LEMMA CallbackStep ==
    ASSUME GcInv, CallbackInv, [Next]_vars
    PROVE  CallbackInv'
  <1>1. CASE Tick \/ Loop \/ StopImpl \/ GetAndClearHeapSnapshotText \/ UNCHANGED vars
    BY <1>1, OnlyCollects DEF CallbackInv
  <1>2. CASE Unrelated
    <2>1. UNCHANGED callback /\ Pause
      BY <1>2 DEF Unrelated, managerVars
    <2>2. CASE SuspendForGC(1, "alloc", FALSE) \/ SuspendForGC(2, "induced", FALSE)
      BY <2>1, <2>2, Suspending DEF CallbackInv
    <2>3. ASSUME NEW who, NEW begun \in BOOLEAN, Suspend(who, begun), UNCHANGED fg PROVE CallbackInv'
      BY <2>1, <2>3 DEF CallbackInv, Suspend, Quiet, OnGCSuspendEEBegin, parserVars
    <2> QED BY <2>1, <2>2, <2>3 DEF Pause
  <1>3. CASE CollectForSession
    BY <1>3, Suspending DEF CollectForSession, SuspendForDump, CallbackInv
  <1>4. CASE Starts
    BY <1>4, Beginning DEF Starts, CallbackInv
  <1>5. CASE GoesOn
    BY <1>5, GoingOn, Nothing DEF CallbackInv, NoCollection, Collection
  <1>6. ASSUME NEW b \in Batches, OnBulkNodes(b) PROVE CallbackInv'
    <2>1. /\ fg' = [fg EXCEPT !.sent = @ \cup {b}] /\ fg \in Collections
          /\ UNCHANGED <<ee, ended, callback>>
      BY <1>6 DEF OnBulkNodes, GCDumps, parserVars, GcInv, GcTypeOK
    <2>2. /\ fg'.dump = fg.dump /\ fg'.number = fg.number /\ fg'.seen = fg.seen
          /\ fg'.reason = fg.reason /\ fg'.gen = fg.gen /\ fg'.type = fg.type
      BY <2>1 DEF Collections
    <2> QED BY <2>1, <2>2 DEF CallbackInv
  <1>7. CASE Callback
    <2>1. UNCHANGED <<ee, fg>>
      BY <1>7
         DEF Callback, OnGarbageCollectionEnd, OnEndGCDump, StartAsyncSnapshotIfNeeded, Schedule,
         runtimeVars
    <2>2. \/ callback' = "none" /\ ended' = NoEnd
          \/ callback # "none" /\ callback' \in {"over", "check", "schedule"} /\ ended' = ended
      BY <1>7
         DEF Callback, OnGarbageCollectionEnd, OnEndGCDump, StartAsyncSnapshotIfNeeded, Schedule,
         CallbackReturns
    <2> QED BY <2>1, <2>2 DEF CallbackInv
  <1> QED BY <1>1, <1>2, <1>3, <1>4, <1>5, <1>6, <1>7 DEF Next, Collect

\* No collection dumps the heap where there is none.
LEMMA NoDump == NoCollection.dump = FALSE
  BY DEF NoCollection, Collection

\* Collections: as long as none of the application's is taken for the dump's, the
\* dump of an open session runs once, and what it finds is kept together.
LEMMA CollectKeepsDump ==
    ASSUME SnapshotInv, DumpInv, Unrelated \/ Collect, ~mistaken'
    PROVE  DumpInv'
  <1> USE DEF DumpInv, DumpAwaited, DumpRuns, DumpEnds, DumpOver, Closing, ToClose
  <1>1. CASE Unrelated
    <2>1. Pause /\ UNCHANGED <<open, owed, inducedGC, callback, shouldCleanup, loop, inProgress, histogram>>
      BY <1>1 DEF Unrelated, managerVars, flags, sessionVars
    <2>2. CASE SuspendForGC(1, "alloc", FALSE) \/ SuspendForGC(2, "induced", FALSE)
      <3>1. ended' = ended /\ fg'.dump = FALSE /\ ~fg.dump
        <4>1. ended' = ended /\ fg'.dump = FALSE /\ fg = NoCollection
          BY <2>2, Suspending DEF SnapshotInv
        <4> QED BY <4>1, NoDump
      <3> QED BY <2>1, <3>1
    <2>3. ASSUME NEW who, NEW begun \in BOOLEAN, Suspend(who, begun), UNCHANGED fg PROVE DumpInv'
      <3>1. ended' = ended
        BY <2>3 DEF Suspend, OnGCSuspendEEBegin, parserVars
      <3> QED BY <2>1, <2>3, <3>1
    <2> QED BY <2>1, <2>2, <2>3 DEF Pause
  <1>2. CASE CollectForSession
    <2>1. /\ SuspendForGC(2, "induced", TRUE) /\ owed /\ owed' = FALSE
          /\ UNCHANGED <<open, inducedGC, callback, shouldCleanup, loop, inProgress, histogram>>
      BY <1>2 DEF CollectForSession, SuspendForDump, flags
    <2>2. fg'.number = 0 /\ fg'.dump = TRUE
      BY <2>1, Suspending DEF SnapshotInv
    <2>3. open # 0 /\ DumpAwaited
      BY <2>1
    <2> QED BY <2>1, <2>2, <2>3 DEF SnapshotInv, SessionInv
  <1>3. CASE Starts
    <2>1. /\ GCStart /\ OnGarbageCollectionStart(IF fg' # fg THEN fg' ELSE bg')
          /\ UNCHANGED <<open, owed, callback, shouldCleanup, loop, inProgress, histogram>>
      BY <1>3 DEF Starts, sessionVars
    <2>2. CASE /\ fg.number = 0 /\ fg'.number \in Nat \ {0} /\ fg'.dump = fg.dump
               /\ fg'.reason = fg.reason /\ fg'.gen = fg.gen /\ fg'.type = fg.type
               /\ fg' # fg /\ ended' = ended
      <3>1. OnGarbageCollectionStart(fg')
        BY <2>1, <2>2
      <3>2. fg.dump => fg'.reason = "induced" /\ fg'.gen = 2 /\ fg'.type = "NonConcurrent"
        BY <2>2 DEF SnapshotInv, CallbackInv
      <3>3. \/ inducedGC' = fg'.number /\ fg.dump /\ inProgress /\ inducedGC = -1
            \/ UNCHANGED inducedGC /\ ~(inProgress /\ inducedGC = -1 /\ fg.dump)
        BY <2>2, <3>1, <3>2 DEF OnGarbageCollectionStart
      <3> QED BY <2>1, <2>2, <3>3
    <2>3. CASE fg' = fg /\ ended' = ended /\ bg'.type = "Background"
      BY <2>1, <2>3 DEF OnGarbageCollectionStart
    <2> QED BY <2>1, <2>2, <2>3, Beginning DEF SnapshotInv
  <1>4. CASE GoesOn
    <2>1. UNCHANGED <<open, owed, inducedGC, shouldCleanup, loop, inProgress, histogram>>
      BY <1>4 DEF GoesOn, flags, sessionVars
    <2>2. /\ callback = "none"
          /\ callback' = IF ended' # NoEnd THEN "end" ELSE "none"
          /\ \/ fg'.dump = fg.dump /\ fg'.number = fg.number /\ (fg.dump => ended' = NoEnd)
             \/ ~fg'.dump /\ (fg.dump => ended'.number = fg.number /\ fg.number # 0)
      BY <1>4, GoingOn, NoDump DEF SnapshotInv
    <2>3. NoEnd.number = 0
      BY DEF NoEnd
    <2> QED BY <2>1, <2>2, <2>3
  <1>5. ASSUME NEW b \in Batches, OnBulkNodes(b) PROVE DumpInv'
    <2>1. /\ fg' = [fg EXCEPT !.sent = @ \cup {b}] /\ fg \in Collections /\ fg.dump /\ open # 0
          /\ histogram' = histogram \cup {<<fg.number, b>>}
          /\ UNCHANGED <<open, owed, inducedGC, callback, shouldCleanup, loop, inProgress, ended>>
      BY <1>5 DEF OnBulkNodes, GCDumps, parserVars, flags, sessionVars, SnapshotInv, GcInv, GcTypeOK
    <2>2. fg'.dump = fg.dump /\ fg'.number = fg.number
      BY <2>1 DEF Collections
    <2>3. DumpRuns /\ loop \notin {"begin", "call"}
      BY <2>1 DEF SnapshotInv, SessionInv
    <2>4. fg.number # 0 /\ \A x \in histogram' : x[1] = fg.number
      BY <1>5, <2>1, <2>3 DEF OnBulkNodes, GCDumps
    <2>5. DumpRuns'
      BY <2>1, <2>2, <2>3, <2>4
    <2>6. \A x, y \in histogram' : x[1] = y[1]
      BY <2>4
    <2> QED BY <2>1, <2>3, <2>5, <2>6
  <1> QED BY <1>1, <1>2, <1>3, <1>4, <1>5 DEF Collect

\* The callback: the end of the dump's collection, and no other, ends the dump.
LEMMA CallbackKeepsDump ==
    ASSUME SnapshotInv, DumpInv, Callback
    PROVE  DumpInv'
  <1> USE DEF DumpInv, DumpAwaited, DumpRuns, DumpEnds, DumpOver, Closing, ToClose
  <1>1. CASE OnGarbageCollectionEnd
    <2>1. /\ callback = "end" /\ UNCHANGED <<open, owed, fg, shouldCleanup, loop, histogram>>
          /\ \/ /\ inProgress /\ ended.number = inducedGC /\ inducedGC' = -1 /\ inProgress' = FALSE
                /\ callback' = "over"
             \/ inProgress /\ ended.number # inducedGC /\ callback' = "none" /\ UNCHANGED <<inducedGC, inProgress>>
             \/ ~inProgress /\ callback' = "check" /\ UNCHANGED <<inducedGC, inProgress>>
      BY <1>1 DEF OnGarbageCollectionEnd, CallbackReturns, runtimeVars, sessionVars
    <2>2. ended.number # -1
      BY <2>1 DEF SnapshotInv, CallbackInv
    <2>3. ~fg.dump
      BY <2>1 DEF SnapshotInv, CallbackInv, GcInv, Blocking, NoCollection, Collection
    <2>4. open # 0 => loop # "call"
      BY DEF SnapshotInv, SessionInv
    <2> QED BY <2>1, <2>2, <2>3, <2>4
  <1>2. CASE OnEndGCDump
    BY <1>2 DEF OnEndGCDump, CallbackReturns, runtimeVars, sessionVars
  <1>3. CASE StartAsyncSnapshotIfNeeded
    BY <1>3
       DEF StartAsyncSnapshotIfNeeded, CallbackReturns, runtimeVars, sessionVars, flags
  <1>4. CASE Schedule
    BY <1>4 DEF Schedule, CallbackReturns, runtimeVars, sessionVars, flags
  <1> QED BY <1>1, <1>2, <1>3, <1>4 DEF Callback

\* The manager's thread: it opens a session only after the last one's dump.
LEMMA LoopKeepsDump ==
    ASSUME SnapshotInv, SessionInv', DumpInv, Loop
    PROVE  DumpInv'
  <1> USE DEF DumpInv, DumpAwaited, DumpRuns, DumpEnds, DumpOver, Closing, ToClose
  <1>0. UNCHANGED <<fg, ended, callback>>
    BY OnlyCollects
  <1>1. CASE NothingToDo
    BY <1>0, <1>1 DEF NothingToDo, Iterated, flags, sessionVars
  <1>2. CASE Cleanup
    BY <1>0, <1>2 DEF Cleanup, sessionVars
  <1>3. CASE StopSession
    BY <1>0, <1>3 DEF StopSession, flags, SnapshotInv, SessionInv
  <1>4. CASE ForgetSession
    BY <1>0, <1>4 DEF ForgetSession, flags, sessionVars
  <1>5. CASE OnCleanupDone
    BY <1>0, <1>5 DEF OnCleanupDone, Iterated, flags, sessionVars
  <1>6. CASE StartFlagged
    BY <1>0, <1>6 DEF StartFlagged, sessionVars
  <1>7. CASE StartGCDump
    BY <1>0, <1>7 DEF StartGCDump, Iterated, flags, sessionVars
  <1>8. CASE DumpBegins
    BY <1>0, <1>8 DEF DumpBegins, sessionVars, SnapshotInv, SessionInv
  <1>9. CASE SessionOpens
    BY <1>0, <1>9 DEF SessionOpens, flags, SnapshotInv, SessionInv
  <1>10. CASE SessionFails
    BY <1>0, <1>10 DEF SessionFails, Iterated, sessionVars, SnapshotInv, SessionInv
  <1>11. CASE SessionReturns
    BY <1>0, <1>11 DEF SessionReturns, Iterated, flags, sessionVars
  <1> QED BY <1>1, <1>2, <1>3, <1>4, <1>5, <1>6, <1>7, <1>8, <1>9, <1>10, <1>11 DEF Loop

\* Every step of the manager, its callbacks and the runtime keeps the invariant.
LEMMA SnapshotStep ==
    ASSUME SnapshotInv, [Next]_vars
    PROVE  SnapshotInv'
  <1>1. GcInv' /\ SessionInv' /\ CallbackInv'
    BY GcStep, ManagerStep, SessionStep, CallbackStep DEF SnapshotInv
  <1>2. ASSUME ~mistaken' PROVE DumpInv'
    <2>1. ~mistaken
      <3>1. mistaken => mistaken'
        BY DEF Next, vars, Tick, Unrelated, Collect, CollectForSession, Starts,
               OnGarbageCollectionStart,
           GoesOn, OnBulkNodes, Callback, OnGarbageCollectionEnd, OnEndGCDump,
           StartAsyncSnapshotIfNeeded, Schedule, Loop, NothingToDo, Cleanup, StopSession,
           ForgetSession,
           OnCleanupDone, StartFlagged, StartGCDump, DumpBegins, SessionOpens, SessionFails,
           SessionReturns, StopImpl, GetAndClearHeapSnapshotText, ghosts, managerVars
      <3> QED BY <1>2, <3>1
    <2>2. DumpInv
      BY <2>1 DEF SnapshotInv
    <2> USE DEF DumpInv, DumpAwaited, DumpRuns, DumpEnds, DumpOver, Closing, ToClose
    <2>3. CASE Tick \/ StopImpl \/ UNCHANGED vars
      <3>1. UNCHANGED <<fg, ended, callback, open, owed, flags, loop, histogram>>
        BY <2>3, OnlyCollects DEF Tick, StopImpl, vars, managerVars, sessionVars
      <3> QED BY <2>2, <3>1 DEF flags
    <2>4. CASE GetAndClearHeapSnapshotText
      <3>1. UNCHANGED <<fg, ended, callback, open, owed, flags, loop>> /\ histogram' = {}
        BY <2>4, OnlyCollects DEF GetAndClearHeapSnapshotText, sessionVars
      <3> QED BY <2>2, <3>1 DEF flags
    <2> HIDE DEF DumpInv
    <2> QED BY <1>1, <1>2, <2>2, <2>3, <2>4, CollectKeepsDump, CallbackKeepsDump, LoopKeepsDump DEF Next
  <1> QED BY <1>1, <1>2 DEF SnapshotInv

\* It holds at first: no collection, no session.
LEMMA InitSnapshotInv == Init => SnapshotInv
  <1> SUFFICES ASSUME Init PROVE SnapshotInv
    OBVIOUS
  <1>1. GcInv
    BY GcInitially DEF Init
  <1>2. SessionInv
    BY DEF Init, SessionInv, LoopPlaces, Opening
  <1>3. ~fg.dump /\ ended = NoEnd
    BY DEF Init, GcInit, NoCollection, Collection
  <1>4. CallbackInv
    BY <1>3 DEF Init, CallbackInv
  <1>5. DumpInv
    BY <1>3 DEF Init, DumpInv, Closing
  <1> QED BY <1>1, <1>2, <1>4, <1>5 DEF SnapshotInv

\* The session, the callback and the dump go together: the invariant of
\* HeapSnapshotManager, for any number of collections and sessions.
THEOREM SnapshotInvariance == Spec => []SnapshotInv
  <1> QED BY InitSnapshotInv, SnapshotStep, PTL DEF Spec

\* What is exported comes from one dump (the class histogram), however exports,
\* the ends of collections and the next start meet, as long as no collection of
\* the application has passed for the dump's.
THEOREM SnapshotsAreOfOneDump == Spec => []SnapshotIsOfOneDump
  <1>1. SnapshotInv => SnapshotIsOfOneDump
    BY DEF SnapshotInv, DumpInv, SnapshotIsOfOneDump
  <1> QED BY <1>1, SnapshotInvariance, PTL

-----------------------------------------------------------------------------
\* The clock and the last dump: what the spacing of snapshots rests on.
LEMMA SpacingStep ==
    ASSUME SpacingInv, [Next]_vars
    PROVE  SpacingInv'
  <1> USE DEF SpacingInv, Spaced, Opening
  <1>1. CASE Tick
    <2>1. /\ now' = now + 1
          /\ UNCHANGED <<dumpEnd, lastTimestamp, shouldStart, again, inProgress, loop>>
      BY <1>1 DEF Tick, flags, times, ghosts
    <2>2. Spaced => Spaced'
      BY <2>1, SnapshotAssumption
    <2> HIDE DEF Spaced
    <2> QED BY <2>1, <2>2
  <1>2. CASE Unrelated \/ Collect
    <2>1. UNCHANGED <<now, dumpEnd, lastTimestamp, shouldStart, again, inProgress, loop>>
      BY <1>2
         DEF Unrelated, Collect, CollectForSession, Starts, GoesOn, OnBulkNodes, managerVars, flags,
             times, ghosts
    <2> QED BY <2>1
  <1>3. CASE OnGarbageCollectionEnd
    BY <1>3 DEF OnGarbageCollectionEnd
  <1>4. CASE OnEndGCDump \/ StartAsyncSnapshotIfNeeded
    BY <1>4 DEF OnEndGCDump, StartAsyncSnapshotIfNeeded, flags, times, ghosts
  <1>5. CASE Schedule
    <2>1. CASE UNCHANGED <<lastTimestamp, shouldStart>>
      BY <1>5, <2>1 DEF Schedule
    <2>2. CASE lastTimestamp = 0 /\ lastTimestamp' = now /\ shouldStart' = (shouldStart \/ ~DelayFirstSnapshot)
      BY <1>5, <2>2 DEF Schedule
    <2>3. CASE /\ lastTimestamp # 0 /\ UNCHANGED lastTimestamp
               /\ shouldStart' = (shouldStart \/ now - lastTimestamp >= Interval)
      <3>1. /\ UNCHANGED <<now, dumpEnd, inProgress, loop>> /\ again \subseteq again'
            /\ shouldStart' /\ (inProgress \/ loop \in Opening) => "pending" \in again'
        BY <1>5 DEF Schedule
      <3>2. now - lastTimestamp >= Interval => Spaced'
        BY <2>3, <3>1, SnapshotAssumption
      <3>3. Spaced => Spaced'
        BY <3>1
      <3> HIDE DEF Spaced
      <3> QED BY <2>3, <3>1, <3>2, <3>3
    <2> QED BY <1>5, <2>1, <2>2, <2>3 DEF Schedule
  <1>6. CASE NothingToDo \/ Cleanup \/ StopSession \/ ForgetSession \/ OnCleanupDone
    BY <1>6 DEF NothingToDo, Cleanup, StopSession, ForgetSession, OnCleanupDone, Iterated, flags,
       times, ghosts
  <1>7. CASE StartFlagged
    BY <1>7 DEF StartFlagged, times
  <1>8. CASE StartGCDump \/ DumpBegins \/ SessionOpens \/ SessionFails \/ SessionReturns
    BY <1>8
       DEF StartGCDump, DumpBegins, SessionOpens, SessionFails, SessionReturns, Iterated, flags,
       times, ghosts
  <1>9. CASE StopImpl \/ GetAndClearHeapSnapshotText \/ UNCHANGED vars
    BY <1>9 DEF StopImpl, GetAndClearHeapSnapshotText, vars, managerVars, flags, times, ghosts
  <1> QED BY <1>1, <1>2, <1>3, <1>4, <1>5, <1>6, <1>7, <1>8, <1>9
             DEF Next, Callback, Loop

\* A snapshot begins no sooner than the interval after the last dump ended
\* (SnapshotCooldown and _lastTimestamp), except one that was scheduled while
\* another was being started; for every interval and any number of snapshots.
THEOREM SnapshotsAreAlwaysSpaced == Spec => SnapshotsAreSpaced
  <1>1. Init => SpacingInv
    BY DEF Init, SpacingInv, Spaced
  <1>2. SpacingInv /\ [Next]_vars => SpacingInv'
    BY SpacingStep
  <1>3. SpacingInv => (loop = "start" /\ loop' = "begin" =>
                          "current" \in again \/ dumpEnd = 0 \/ now >= dumpEnd + Interval)
    BY DEF SpacingInv, Spaced
  <1> QED BY <1>1, <1>2, <1>3, PTL DEF Spec, SnapshotsAreSpaced
=============================================================================

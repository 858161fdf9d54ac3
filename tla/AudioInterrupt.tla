--------------------------- MODULE AudioInterrupt ---------------------------
(***************************************************************************)
(* The focus list of AudioInterruptService (audio_interrupt_service.cpp):  *)
(* which stream may sound while which other one does.  A stream that       *)
(* starts asks for the focus; the table of                                 *)
(* audio_interrupt_policy_config.xml says, for every pair, whether the     *)
(* existing or the incoming one gives way and how.  When a stream leaves,  *)
(* the states of those that stay are worked out again in list order.       *)
(*                                                                         *)
(* One zone, no active audio session (so no CanMixForSession), no source   *)
(* concurrency, no peeling recording, no game client, no device tag, no    *)
(* remote client.  Every bundle has a name; the sources are the microphone *)
(* and the one of a call.  Every operation is one critical section of      *)
(* mutex_, except ClearAudioFocusBySessionID, which takes it three times;  *)
(* the windows, which the service asks for at every pair, stay where they  *)
(* are while one operation runs.                                           *)
(***************************************************************************)
EXTENDS Naturals, SequencesExt

CONSTANTS
  Stream,   \* streams, the streamId of an AudioInterrupt
  App,      \* applications, the pid of an AudioInterrupt
  Profile   \* what a stream may ask the focus as

VARIABLES
  profile,             \* the AudioInterrupt each stream asks with
  audioFocusInfoList,  \* sequence of [stream, state]
  isPreemptMode_,
  clearing,            \* ClearAudioFocusBySessionID: how far, for which stream
  muteFlag_,           \* the flag of the capturer in the server, CapturerInServer
  foreground,          \* the applications with a visible window at the front
  told,                \* what the events since it asked make a stream be
  together             \* history: the pairs of the list admitted with the windows
                       \* of both at the front

vars == <<profile, audioFocusInfoList, isPreemptMode_, clearing, muteFlag_,
          foreground, told, together>>

Type == {"MUSIC", "RING", "VOICE_CALL", "NAVIGATION", "VOICE_COMMUNICATION",
         "ALARM", "MIC", "CALL_MIC"}
Recording == {"MIC", "CALL_MIC"}
State == {"ACTIVE", "MUTED", "DUCK", "PAUSE"}
Hint  == {"RESUME", "PAUSE", "STOP", "DUCK", "UNDUCK", "MUTE", "UNMUTE"}

\* pid: the application, in SHARE_MODE; listed: its bundle is in the list that
\* matters for its type, "audio_param" for a media stream, which then pauses
\* others instead of stopping them, "audio_micfocus_list" for a recording from
\* the microphone; mute: InterruptStrategy::MUTE, which only a capturer sets.
AnyProfile == [pid : App, type : Type, listed : BOOLEAN, mute : BOOLEAN]

ASSUME ProfileAssumption ==
  /\ Profile \subseteq AnyProfile
  /\ \A p \in Profile : p.mute => p.type \in Recording
  /\ \A p \in Profile : p.listed => p.type \in {"MUSIC", "MIC"}

Entry(s, state) == [stream |-> s, state |-> state]
Event(s, hint)  == [stream |-> s, hint |-> hint]
Has(list, s)    == \E i \in DOMAIN list : list[i].stream = s
StateOf(list, s) == (CHOOSE e \in ToSet(list) : e.stream = s).state
Without(list, s) == SelectSeq(list, LAMBDA e : e.stream # s)

\* AudioFocuState: the larger value has the higher priority.
Rank == [ACTIVE |-> 0, MUTED |-> 1, DUCK |-> 2, PAUSE |-> 3, STOP |-> 4]
Higher(a, b) == IF Rank[a] > Rank[b] THEN a ELSE b
Highest(S)   == CHOOSE a \in S : \A b \in S : Rank[a] >= Rank[b]

\* HINT_STATE_MAP.  STOP is not in it.
HintState == [NONE |-> "ACTIVE", DUCK |-> "DUCK", PAUSE |-> "PAUSE", MUTE |-> "MUTED"]

-----------------------------------------------------------------------------
(* The table: <<existing, incoming>>.  A pair in none of the sets plays. *)

StopsExisting ==
  {<<"MUSIC", "MUSIC">>, <<"MUSIC", "MIC">>,
   <<"RING", "VOICE_CALL">>, <<"RING", "VOICE_COMMUNICATION">>,
   <<"NAVIGATION", "VOICE_CALL">>, <<"NAVIGATION", "NAVIGATION">>,
   <<"NAVIGATION", "VOICE_COMMUNICATION">>,
   <<"MIC", "VOICE_CALL">>, <<"MIC", "CALL_MIC">>}
  \cup {"ALARM"} \X (Type \ {"NAVIGATION", "CALL_MIC"})

PausesExisting ==
  {"MUSIC"} \X {"RING", "VOICE_CALL", "VOICE_COMMUNICATION", "ALARM"}
  \cup {"VOICE_COMMUNICATION"} \X {"VOICE_CALL", "VOICE_COMMUNICATION"}
  \cup {"CALL_MIC"} \X {"VOICE_CALL", "CALL_MIC"}

DucksExisting  == {<<"MUSIC", "NAVIGATION">>}
PausesIncoming == {"VOICE_CALL"} \X {"VOICE_COMMUNICATION", "CALL_MIC"}
DucksIncoming  ==
  {"RING", "VOICE_CALL", "NAVIGATION", "VOICE_COMMUNICATION"} \X {"MUSIC"}
  \cup {"VOICE_CALL", "VOICE_COMMUNICATION"} \X {"ALARM"}
Denies ==
  {"VOICE_CALL"} \X {"RING", "VOICE_CALL", "NAVIGATION", "MIC"}
  \cup Recording \X {"MIC"}

FocusEntry(on, hint, reject) == [actionOn |-> on, hintType |-> hint, isReject |-> reject]

\* focusCfgMap_[{existing, incoming}]
focusCfgMap ==
  [pair \in Type \X Type |->
     CASE pair \in StopsExisting  -> FocusEntry("CURRENT", "STOP", FALSE)
       [] pair \in PausesExisting -> FocusEntry("CURRENT", "PAUSE", FALSE)
       [] pair \in DucksExisting  -> FocusEntry("CURRENT", "DUCK", FALSE)
       [] pair \in PausesIncoming -> FocusEntry("INCOMING", "PAUSE", FALSE)
       [] pair \in DucksIncoming  -> FocusEntry("INCOMING", "DUCK", FALSE)
       [] pair \in Denies         -> FocusEntry("INCOMING", "STOP", TRUE)
       [] OTHER                   -> FocusEntry("INCOMING", "NONE", FALSE)]

IsMediaStream(s) == profile[s].type = "MUSIC"
IsMicSource(s)   == profile[s].type = "CALL_MIC"

UpdateFocusStrategy(current, incoming, entry) ==
  IF /\ IsMediaStream(current) /\ IsMediaStream(incoming)
     /\ profile[incoming].listed /\ entry.hintType = "STOP"
  THEN [entry EXCEPT !.hintType = "PAUSE"]
  ELSE entry

\* A listed recording is paused by a call, whichever of them came first.  A
\* rejection stays one.
UpdateMicFocusStrategy(current, incoming, entry) ==
  LET calls(s)       == IsMicSource(s) \/ profile[s].type = "VOICE_CALL"
      listedMic(s)   == profile[s].type = "MIC" /\ profile[s].listed
  IN CASE listedMic(current) /\ calls(incoming) ->
            FocusEntry("CURRENT", "PAUSE", entry.isReject)
       [] calls(current) /\ listedMic(incoming) ->
            FocusEntry("INCOMING", "PAUSE", entry.isReject)
       [] OTHER -> entry

\* CheckWindowState of both: media streams side by side on the screen play
\* together.
BothInFront(current, incoming) ==
  /\ IsMediaStream(current) /\ IsMediaStream(incoming)
  /\ {profile[current].pid, profile[incoming].pid} \subseteq foreground

UpdateWindowFocusStrategy(current, incoming, entry) ==
  IF BothInFront(current, incoming)
  THEN FocusEntry("INCOMING", "NONE", entry.isReject)
  ELSE entry

\* When both have the strategy the incoming one is the one muted.
UpdateMuteAudioFocusStrategy(current, incoming, entry) ==
  IF (profile[current].mute \/ profile[incoming].mute) /\ entry.hintType \in {"STOP", "PAUSE"}
  THEN FocusEntry(IF profile[incoming].mute THEN "INCOMING" ELSE "CURRENT", "MUTE", FALSE)
  ELSE entry

\* focusCfgMap_ as UpdateAudioFocusStrategy changes it.
Table(current, incoming) == focusCfgMap[<<profile[current].type, profile[incoming].type>>]

Rule(current, incoming) ==
  LET media  == UpdateFocusStrategy(current, incoming, Table(current, incoming))
      mic    == UpdateMicFocusStrategy(current, incoming, media)
      window == UpdateWindowFocusStrategy(current, incoming, mic)
  IN UpdateMuteAudioFocusStrategy(current, incoming, window)

IsSameAppInShareMode(s, t) == profile[s].pid = profile[t].pid

\* What the rule for the pair makes of each of the two.
Affects(current, incoming, on) ==
  ~IsSameAppInShareMode(current, incoming) /\ Rule(current, incoming).actionOn = on
-----------------------------------------------------------------------------
(* A stream asks for the focus. *)

IncomingStateOfLast(list, s) ==
  LET rules == {e \in ToSet(list) : Affects(e.stream, s, "INCOMING")}
  IN IF rules = {} \/ list = <<>> \/ Last(list) \notin rules THEN "ACTIVE"
     ELSE IF Rule(Last(list).stream, s).isReject THEN "STOP"
     ELSE HintState[Rule(Last(list).stream, s).hintType]

\* ProcessActiveStreamFocus: the incoming stream's state, STOP when denied.
IncomingState(list, s) ==
  Highest({"ACTIVE"} \cup
    {IF Rule(e.stream, s).isReject THEN "STOP" ELSE HintState[Rule(e.stream, s).hintType] :
       e \in {f \in ToSet(list) : Affects(f.stream, s, "INCOMING")}})

\* ProcessExistInterrupt: the hint an entry of the list gets, NONE for none.
HintForExisting(e, s) ==
  LET hint == Rule(e.stream, s).hintType
  IN IF /\ Affects(e.stream, s, "CURRENT")
        /\ \/ hint = "STOP"
           \/ hint = "PAUSE" /\ e.state \in {"ACTIVE", "DUCK"}
           \/ hint \in {"DUCK", "MUTE"} /\ e.state = "ACTIVE"
     THEN hint ELSE "NONE"

\* ProcessActiveInterrupt: the entries left, and the events sent.
AfterActive(list, s) ==
  LET hit(e)   == HintForExisting(e, s)
      moved(e) == IF hit(e) = "NONE" THEN e ELSE [e EXCEPT !.state = HintState[hit(e)]]
      kept     == SelectSeq(list, LAMBDA e : hit(e) # "STOP")
      struck   == SelectSeq(list, LAMBDA e : hit(e) # "NONE")
  IN [list |-> [i \in DOMAIN kept |-> moved(kept[i])],
      sent |-> [i \in DOMAIN struck |-> Event(struck[i].stream, hit(struck[i]))]]

\* HandleIncomingState, AddToAudioFocusInfoList, SendInterruptEventToIncomingStream
ProcessFocusEntry(list, s) ==
  LET state  == IncomingState(list, s)
      after  == AfterActive(list, s)
      hint   == [ACTIVE |-> "NONE", MUTED |-> "MUTE", DUCK |-> "DUCK", PAUSE |-> "PAUSE"][state]
  IN IF state = "STOP"
     THEN [list |-> list, sent |-> <<Event(s, "STOP")>>]
     ELSE [list |-> Append(after.list, Entry(s, state)),
           sent |-> after.sent \o (IF hint = "NONE" THEN <<>> ELSE <<Event(s, hint)>>)]

AudioInterruptIsActiveInFocusList(s) ==
  Has(audioFocusInfoList, s) /\ StateOf(audioFocusInfoList, s) \in {"ACTIVE", "DUCK"}

KeepsOldEntry(s) ==
  CASE isPreemptMode_ -> [list |-> audioFocusInfoList, sent |-> <<Event(s, "STOP")>>]
    [] ~isPreemptMode_ /\ AudioInterruptIsActiveInFocusList(s) ->
         [list |-> audioFocusInfoList, sent |-> <<>>]
    [] OTHER -> ProcessFocusEntry(audioFocusInfoList, s)

\* ActivateAudioInterruptInternal
Activated(s) ==
  LET rest == Without(audioFocusInfoList, s)  \* ProcessAudioScene
  IN CASE isPreemptMode_ -> [list |-> audioFocusInfoList, sent |-> <<Event(s, "STOP")>>]
       [] ~isPreemptMode_ /\ AudioInterruptIsActiveInFocusList(s) ->
            [list |-> audioFocusInfoList, sent |-> <<>>]
       [] OTHER -> ProcessFocusEntry(rest, s)
-----------------------------------------------------------------------------
(* A stream leaves. *)

SimulateFromOldState(done, e) ==
  LET states == {IF Rule(f.stream, e.stream).hintType \in DOMAIN HintState
                 THEN HintState[Rule(f.stream, e.stream).hintType] ELSE "ACTIVE" :
                   f \in {d \in ToSet(done) : Affects(d.stream, e.stream, "INCOMING")}}
  IN Append(done, Entry(e.stream, Highest({e.state} \cup states)))

\* One turn of SimulateFocusEntry: entry e comes after those of done.
Simulate(done, e) ==
  LET mapped(t) == Rule(t, e.stream).hintType \in DOMAIN HintState
      state(t)  == HintState[Rule(t, e.stream).hintType]
      incoming  == Highest({"ACTIVE"} \cup
        {state(t) : t \in {d.stream : d \in {f \in ToSet(done) :
                             Affects(f.stream, e.stream, "INCOMING") /\ mapped(f.stream)}}})
      struck(d) == Affects(d.stream, e.stream, "CURRENT") /\ mapped(d.stream)
      after     == [i \in DOMAIN done |->
                      IF struck(done[i])
                      THEN [done[i] EXCEPT !.state = Higher(state(done[i].stream), done[i].state)]
                      ELSE done[i]]
  IN Append(IF incoming = "PAUSE" THEN done ELSE after, Entry(e.stream, incoming))

SimulateFocusEntry(list) == FoldLeft(Simulate, <<>>, list)

ChangeHintsNoDuck(old, new) ==
  CASE new = "ACTIVE" /\ old = "PAUSE" -> <<"RESUME">>
    [] new = "ACTIVE" /\ old = "MUTED" -> <<"UNMUTE">>
    [] new = "DUCK" /\ old = "PAUSE"   -> <<"RESUME">>
    [] new = "PAUSE" /\ old \in {"ACTIVE", "DUCK", "MUTED"} -> <<"PAUSE">>
    [] OTHER -> <<>>

\* SendInterruptEvent: the hints for a change of state in the list.  Nothing is
\* sent for MUTED to DUCK, nor for a change to MUTED.
ChangeHints(old, new) ==
  CASE new = "ACTIVE" /\ old = "PAUSE" -> <<"RESUME">>
    [] new = "ACTIVE" /\ old = "DUCK"  -> <<"UNDUCK">>
    [] new = "ACTIVE" /\ old = "MUTED" -> <<"UNMUTE">>
    [] new = "DUCK" /\ old = "PAUSE"   -> <<"RESUME">>
    [] new = "DUCK" /\ old = "ACTIVE"  -> <<"DUCK">>
    [] new = "PAUSE" /\ old = "DUCK"   -> <<"UNDUCK", "PAUSE">>
    [] new = "PAUSE" /\ old \in {"ACTIVE", "MUTED"} -> <<"PAUSE">>
    [] OTHER -> <<>>

\* ResumeAudioFocusList: an entry that is told to resume leaves the list, to
\* come back when its application starts it.
Resumed(list) ==
  LET new     == SimulateFocusEntry(list)
      hints(i) == ChangeHints(list[i].state, new[i].state)
      all     == [i \in DOMAIN list |-> [entry |-> new[i], hints |-> hints(i)]]
      kept    == SelectSeq(all, LAMBDA c : c.hints # <<"RESUME">>)
  IN [list |-> [i \in DOMAIN kept |-> kept[i].entry],
      sent |-> FoldLeft(LAMBDA sent, c : sent \o
                          [i \in DOMAIN c.hints |-> Event(c.entry.stream, c.hints[i])],
                        <<>>, all)]

\* DeactivateAudioInterruptInternal
Deactivated(list, s) ==
  IF Has(list, s) THEN Resumed(Without(list, s)) ELSE [list |-> list, sent |-> <<>>]
-----------------------------------------------------------------------------
NotClearing == [step |-> "idle"]

Init ==
  /\ profile \in [Stream -> Profile]
  /\ audioFocusInfoList = <<>>
  /\ isPreemptMode_ = FALSE
  /\ clearing = NotClearing
  /\ muteFlag_ = [s \in Stream |-> FALSE]
  /\ foreground = {}
  /\ told = [s \in Stream |-> "NONE"]
  /\ together = {}

\* What a stream is after an event: NONE without the focus.
Hear(state, hint) ==
  CASE hint \in {"STOP", "RESUME"} -> "NONE"
    [] hint = "PAUSE"  -> "PAUSE"
    [] hint = "DUCK"   -> "DUCK"
    [] hint = "MUTE"   -> "MUTED"
    [] OTHER -> "ACTIVE"

\* SendInterruptEventCallback, with the SetLatestMuteState it makes.
SendInterruptEventCallback(sent, before) ==
  /\ told' = FoldLeft(LAMBDA t, e : [t EXCEPT ![e.stream] = Hear(@, e.hint)], before, sent)
  /\ muteFlag_' = FoldLeft(LAMBDA m, e :
       [m EXCEPT ![e.stream] = IF e.hint \in {"MUTE", "UNMUTE"} THEN e.hint = "MUTE" ELSE @],
       muteFlag_, sent)

Remember(pairs, list) ==
  together' = {pair \in pairs : \A s \in pair : Has(list, s)}

Change(result, before) ==
  /\ audioFocusInfoList' = result.list
  /\ SendInterruptEventCallback(result.sent, before)
  /\ UNCHANGED <<profile, foreground>>

ActivateAudioInterrupt(s) ==
  LET asks == ~isPreemptMode_ /\ ~AudioInterruptIsActiveInFocusList(s)
      with == {t \in Stream : ~IsSameAppInShareMode(s, t) /\ BothInFront(t, s)}
  IN /\ Change(Activated(s), IF asks THEN [told EXCEPT ![s] = "ACTIVE"] ELSE told)
     /\ IF asks
        THEN Remember({pair \in together : s \notin pair} \cup {{s, t} : t \in with},
                      Activated(s).list)
        ELSE UNCHANGED together
     /\ UNCHANGED <<isPreemptMode_, clearing>>

\* By the stream itself, or by RemoveClient when its process dies.
DeactivateAudioInterrupt(s) ==
  /\ Change(Deactivated(audioFocusInfoList, s), [told EXCEPT ![s] = "NONE"])
  /\ Remember(together, Deactivated(audioFocusInfoList, s).list)
  /\ UNCHANGED <<isPreemptMode_, clearing>>

\* RemoveExistingFocus: an application is gone, one resumption for its streams.
RemoveExistingFocus(pid) ==
  LET stays == SelectSeq(audioFocusInfoList, LAMBDA e : profile[e.stream].pid # pid)
  IN /\ stays # audioFocusInfoList
     /\ Change(Resumed(stays),
               [s \in Stream |-> IF profile[s].pid = pid THEN "NONE" ELSE told[s]])
     /\ Remember(together, Resumed(stays).list)
     /\ UNCHANGED <<isPreemptMode_, clearing>>

\* ClearAudioFocusInfoList: all are stopped, a call only in preempt mode.
Cleared(preempt) ==
  LET spared(e) == ~preempt /\ profile[e.stream].type = "VOICE_CALL"
      out       == SelectSeq(audioFocusInfoList, LAMBDA e : ~spared(e))
  IN [list |-> SelectSeq(audioFocusInfoList, spared),
      sent |-> [i \in DOMAIN out |-> Event(out[i].stream, "STOP")]]

ClearAudioFocusInfoListOnAccountsChanged ==
  /\ audioFocusInfoList # <<>>
  /\ Change(Cleared(isPreemptMode_), told)
  /\ Remember(together, Cleared(isPreemptMode_).list)
  /\ UNCHANGED <<isPreemptMode_, clearing>>

ActivatePreemptMode ==
  /\ isPreemptMode_' = TRUE
  /\ Change(Cleared(TRUE), told)
  /\ together' = {}
  /\ UNCHANGED clearing

DeactivatePreemptMode ==
  /\ isPreemptMode_' = FALSE
  /\ UNCHANGED <<profile, audioFocusInfoList, clearing, muteFlag_, foreground, told, together>>

\* ClearAudioFocusBySessionID, for a ringtone or a call that has fallen silent
\* in the background: find the stream, take it out, stop it, with mutex_
\* released in between.
ClearFind(s) ==
  /\ clearing.step = "idle"
  /\ profile[s].type \in {"RING", "VOICE_COMMUNICATION"}
  /\ Has(audioFocusInfoList, s)
  /\ clearing' = [step |-> "found", stream |-> s]
  /\ UNCHANGED <<profile, audioFocusInfoList, isPreemptMode_, muteFlag_, foreground, told,
                 together>>

ClearDeactivate ==
  /\ clearing.step = "found"
  /\ clearing' = [clearing EXCEPT !.step = "out"]
  /\ Change(Deactivated(audioFocusInfoList, clearing.stream),
            [told EXCEPT ![clearing.stream] = "NONE"])
  /\ Remember(together, Deactivated(audioFocusInfoList, clearing.stream).list)
  /\ UNCHANGED isPreemptMode_

ClearStop ==
  /\ clearing.step = "out"
  /\ clearing' = NotClearing
  /\ SendInterruptEventCallback(<<Event(clearing.stream, "STOP")>>, told)
  /\ UNCHANGED <<profile, audioFocusInfoList, isPreemptMode_, foreground, together>>

\* The user brings an application to the front or away from it.  The service is
\* not told and asks when it needs to know.  (It uses the answer only for two
\* media players of different applications.)
MoveWindow(pid) ==
  /\ \E s, t \in Stream :
       /\ profile[s].pid = pid /\ ~IsSameAppInShareMode(s, t)
       /\ IsMediaStream(s) /\ IsMediaStream(t)
  /\ foreground' = IF pid \in foreground THEN foreground \ {pid} ELSE foreground \cup {pid}
  /\ UNCHANGED <<profile, audioFocusInfoList, isPreemptMode_, clearing, muteFlag_, told, together>>

Next ==
  \/ \E s \in Stream :
       ActivateAudioInterrupt(s) \/ DeactivateAudioInterrupt(s) \/ ClearFind(s)
  \/ \E pid \in App : RemoveExistingFocus(pid) \/ MoveWindow(pid)
  \/ ClearDeactivate \/ ClearStop
  \/ ClearAudioFocusInfoListOnAccountsChanged \/ ActivatePreemptMode \/ DeactivatePreemptMode

Spec == Init /\ [][Next]_vars
-----------------------------------------------------------------------------
\* Among the types: a stream never stands in the list twice, however often it
\* asks, is taken out and comes back (ProcessAudioScene takes the old entry out).
TypeOK ==
  /\ profile \in [Stream -> Profile]
  /\ audioFocusInfoList \in Seq([stream : Stream, state : State])
  /\ IsInjective([i \in DOMAIN audioFocusInfoList |-> audioFocusInfoList[i].stream])
  /\ isPreemptMode_ \in BOOLEAN
  /\ clearing \in {NotClearing} \cup [step : {"found", "out"}, stream : Stream]
  /\ muteFlag_ \in [Stream -> BOOLEAN]
  /\ foreground \subseteq App
  /\ told \in [Stream -> State \cup {"NONE"}]
  /\ together \subseteq {{e.stream, f.stream} : e, f \in ToSet(audioFocusInfoList)}

\* Two streams of different applications that both sound at full volume are a
\* pair the table lets play together, or two media players that were both on the
\* screen when the later one was admitted, whatever came and went before:
\* ProcessActiveInterrupt on the way in and SimulateFocusEntry on the way out
\* have to agree on it.  The permission of the screen is never taken back, for
\* nobody tells the service that a window moved and SimulateFocusEntry passes
\* over STOP; but it is the only one, and it goes to the pair it was given to.
NoClash ==
  \A i, j \in DOMAIN audioFocusInfoList :
    LET e == audioFocusInfoList[i]
        f == audioFocusInfoList[j]
    IN i < j /\ e.state = "ACTIVE" /\ f.state = "ACTIVE"
         /\ ~IsSameAppInShareMode(e.stream, f.stream)
       => \/ Table(e.stream, f.stream).hintType = "NONE"
          \/ {e.stream, f.stream} \in together

\* A stream of the list has been told what it is there, and a muted capturer is
\* muted.
ToldWhatItIs ==
  \A e \in ToSet(audioFocusInfoList) :
    /\ told[e.stream] = e.state
    /\ e.state = "MUTED" => muteFlag_[e.stream]

\* The list and what the streams were told part in one way only: the STOP that
\* ClearAudioFocusBySessionID sends after it let go of mutex_, to a stream that
\* has asked again in the meantime.
OnlyLateStopMisleads ==
  [][ToldWhatItIs /\ ~ToldWhatItIs'
       => clearing.step = "out" /\ Has(audioFocusInfoList, clearing.stream) /\ ClearStop]_vars

\* Entry e is held back by another one of the list.
HeldBack(e) ==
  \E f \in ToSet(audioFocusInfoList) :
    \/ /\ Affects(f.stream, e.stream, "INCOMING")
       /\ Rule(f.stream, e.stream).hintType # "NONE"
    \/ /\ Affects(e.stream, f.stream, "CURRENT")
       /\ Rule(e.stream, f.stream).hintType # "NONE"

NobodyHeldForNothing ==
  \A e \in ToSet(audioFocusInfoList) : e.state # "ACTIVE" => HeldBack(e)

\* When a stream leaves and nobody is told to resume, nobody stays ducked,
\* paused or muted on account of a stream that is not there any more.  (When
\* somebody is told to resume he leaves the list as well, and those he held
\* back wait for him.)
LeavingReleasesOthers ==
  [][\A s \in Stream :
       Len(audioFocusInfoList') = Len(audioFocusInfoList) - 1 /\ DeactivateAudioInterrupt(s)
         => NobodyHeldForNothing']_vars
=============================================================================

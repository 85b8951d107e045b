------------------------------- MODULE LocalMedia -------------------------------
(***************************************************************************)
(* Camera and microphone of one tab: the media half of hooks/useWebRTC.ts, *)
(* the toggles of stores/callStore.ts and the effects of ChatRoom.tsx that *)
(* bring the toggles to the tracks.                                        *)
(*                                                                         *)
(* Grain: what runs between two awaits.  A getUserMedia that is under way  *)
(* is a member of asking; the browser answers when and how it likes.  An   *)
(* effect runs in the step that changes what it depends on.                *)
(***************************************************************************)
EXTENDS Naturals, Sequences

CONSTANTS
  MaxTracks,  \* bound: tracks the browser hands out
  MaxClicks   \* bound: presses of the two toggles

VARIABLES
  mounted,  \* ChatRoom is on the screen
  muted,    \* callStore.isMicMuted
  off,      \* callStore.isCameraOff
  clicks,
  tracks,   \* every track handed out: [kind, live, enabled]
  stream,   \* tracks of localStreamRef
  asking,   \* getUserMedia calls under way, by caller (bound: one of each)
  late,     \* those that an unmount left behind
  denied,   \* mediaPermission = 'denied'
  room,     \* matchInfo is set
  setup,    \* setupPeerConnection: none, ice, media or done
  sent      \* tracks of the peer connection's senders

vars == <<mounted, muted, off, clicks, tracks, stream, asking, late, denied, room, setup, sent>>

Tracks == DOMAIN tracks
Video  == {t \in Tracks : tracks[t].kind = "video"}

TypeOK ==
  /\ {mounted, muted, off, denied, room} \subseteq BOOLEAN
  /\ clicks \in 0..MaxClicks
  /\ tracks \in Seq([kind : {"audio", "video"}, live : BOOLEAN, enabled : BOOLEAN])
  /\ stream \cup sent \subseteq Tracks
  /\ {asking, late} \subseteq SUBSET {"timer", "page", "camera", "setup"}
  /\ setup \in {"none", "ice", "media", "done"}

Init ==
  /\ mounted = FALSE /\ muted = FALSE /\ off = FALSE /\ clicks = 0
  /\ tracks = <<>> /\ stream = {} /\ asking = {} /\ late = {} /\ denied = FALSE
  /\ room = FALSE /\ setup = "none" /\ sent = {}

-----------------------------------------------------------------------------
(* Tracks *)

Enable(ts, kind, on) ==
  [t \in DOMAIN ts |->
     IF t \in stream /\ ts[t].kind = kind THEN [ts[t] EXCEPT !.enabled = on] ELSE ts[t]]

Stopped(ts, these) ==
  [t \in DOMAIN ts |-> IF t \in these THEN [ts[t] EXCEPT !.live = FALSE] ELSE ts[t]]

LiveCamera == \E t \in stream \cap Video : tracks[t].live

(* setMicMuted *)
MicMuted(ts, m) == Enable(ts, "audio", ~m)

(* setCameraOff, up to its getUserMedia: without a live camera track, "on" *)
(* asks for one.                                                           *)
CameraOff(ts, o) ==
  /\ tracks' = IF o \/ LiveCamera THEN Enable(ts, "video", ~o) ELSE ts
  /\ asking' = IF o \/ LiveCamera THEN asking ELSE asking \cup {"camera"}

(* A new track comes enabled, whatever the toggles say. *)
Handed(kinds) ==
  [i \in DOMAIN kinds |-> [kind |-> kinds[i], live |-> TRUE, enabled |-> TRUE]]

New(kinds) == {Len(tracks) + i : i \in DOMAIN kinds}

-----------------------------------------------------------------------------
(* The room's page *)

(* The effects run at once, requestMedia 300 ms later.  The store has kept *)
(* its toggles and its room.                                               *)
Mount ==
  /\ ~mounted /\ mounted' = TRUE
  /\ stream' = {} /\ denied' = FALSE
  /\ asking' = {"timer"} \cup (IF off THEN {} ELSE {"camera"})
  /\ setup' = IF room THEN "ice" ELSE "none"
  /\ UNCHANGED <<muted, off, clicks, tracks, late, room, sent>>

(* The tracks of the stream are stopped, the calls under way are not.      *)
Unmount ==
  /\ mounted /\ mounted' = FALSE
  /\ tracks' = Stopped(tracks, stream)
  /\ asking' = {} /\ late' = late \cup (asking \ {"timer"})
  /\ setup' = "none" /\ sent' = {}
  /\ UNCHANGED <<muted, off, clicks, stream, denied, room>>

(* Their tracks start for a page that is gone: nothing will stop them. *)
AnsweredLate ==
  /\ Len(tracks) < MaxTracks
  /\ \E caller \in late : late' = late \ {caller}
  /\ tracks' = tracks \o Handed(<<"video">>)
  /\ UNCHANGED <<mounted, muted, off, clicks, stream, asking, denied, room, setup, sent>>

RequestMedia ==
  /\ mounted
  /\ \/ "timer" \in asking
     \/ denied            \* "Allow & Retry"
  /\ asking' = (asking \ {"timer"}) \cup {"page"}
  /\ denied' = FALSE
  /\ UNCHANGED <<mounted, muted, off, clicks, tracks, stream, late, room, setup, sent>>

(* Camera and microphone, the microphone alone, or an empty stream: it     *)
(* takes the place of the stream that is there.                            *)
MediaAnswered ==
  /\ "page" \in asking /\ asking' = asking \ {"page"}
  /\ \E kinds \in {<<"audio", "video">>, <<"audio">>, <<>>} :
       /\ Len(tracks) + Len(kinds) <= MaxTracks
       /\ tracks' = tracks \o Handed(kinds)
       /\ stream' = New(kinds)
       /\ denied' = (kinds = <<>>)
  /\ UNCHANGED <<mounted, muted, off, clicks, late, room, setup, sent>>

ToggleMic ==
  /\ mounted /\ clicks < MaxClicks /\ clicks' = clicks + 1
  /\ muted' = ~muted
  /\ tracks' = MicMuted(tracks, ~muted)
  /\ UNCHANGED <<mounted, off, stream, asking, late, denied, room, setup, sent>>

ToggleCamera ==
  /\ mounted /\ clicks < MaxClicks /\ clicks' = clicks + 1
  /\ off' = ~off
  /\ CameraOff(tracks, ~off)
  /\ UNCHANGED <<mounted, muted, stream, denied, late, room, setup, sent>>

(* The rest of setCameraOff(false): the old camera tracks go, the new one  *)
(* is in the stream and, unless replaceTrack fails, with the sender.       *)
CameraAnswered ==
  /\ "camera" \in asking /\ asking' = asking \ {"camera"}
  /\ Len(tracks) < MaxTracks
  /\ LET t   == Len(tracks) + 1
         old == stream \cap Video
     IN /\ tracks' = Stopped(tracks, old) \o Handed(<<"video">>)
        /\ stream' = (stream \ old) \cup {t}
        /\ sent' \in {sent} \cup
             (IF sent \cap Video = {} THEN {} ELSE {(sent \ Video) \cup {t}})
  /\ denied' = FALSE
  /\ UNCHANGED <<mounted, muted, off, clicks, late, room, setup>>

CameraRefused ==
  /\ "camera" \in asking /\ asking' = asking \ {"camera"}
  /\ denied' = TRUE
  /\ UNCHANGED <<mounted, muted, off, clicks, tracks, stream, late, room, setup, sent>>

(* The system takes the device away. *)
TrackEnds ==
  /\ \E t \in Tracks : tracks[t].live /\ tracks' = Stopped(tracks, {t})
  /\ UNCHANGED <<mounted, muted, off, clicks, stream, asking, late, denied, room, setup, sent>>

-----------------------------------------------------------------------------
(* The call *)

MatchFound ==
  /\ mounted /\ ~room /\ room' = TRUE
  /\ setup' = "ice"
  /\ UNCHANGED <<mounted, muted, off, clicks, tracks, stream, asking, late, denied, sent>>

(* addTrack for whatever the stream holds now; an empty one is asked for   *)
(* once more.                                                              *)
SetupMedia ==
  /\ setup = "ice"
  /\ IF stream = {}
     THEN setup' = "media" /\ asking' = asking \cup {"setup"} /\ UNCHANGED sent
     ELSE setup' = "done" /\ sent' = stream /\ UNCHANGED asking
  /\ UNCHANGED <<mounted, muted, off, clicks, tracks, stream, late, denied, room>>

(* Refused, the connection is made without tracks. *)
SetupAnswered ==
  /\ setup = "media" /\ "setup" \in asking /\ asking' = asking \ {"setup"}
  /\ setup' = "done"
  /\ \/ /\ Len(tracks) + 2 <= MaxTracks
        /\ tracks' = tracks \o Handed(<<"audio", "video">>)
        /\ stream' = New(<<"audio", "video">>)
        /\ sent' = stream'
        /\ denied' = FALSE
     \/ UNCHANGED <<tracks, stream, sent, denied>>
  /\ UNCHANGED <<mounted, muted, off, clicks, late, room>>

(* skipPartner: resetCall switches both on, and the effects follow. *)
Skip ==
  /\ mounted /\ room /\ room' = FALSE
  /\ muted' = FALSE /\ off' = FALSE
  /\ LET heard == IF muted THEN MicMuted(tracks, FALSE) ELSE tracks
     IN IF off THEN CameraOff(heard, FALSE) ELSE tracks' = heard /\ UNCHANGED asking
  /\ setup' = "none" /\ sent' = {}
  /\ UNCHANGED <<mounted, clicks, stream, denied, late>>

(* PEER_LEFT: closePc; the room stays until it is replaced. *)
PeerLeft ==
  /\ setup = "done" /\ sent # {} /\ sent' = {}
  /\ UNCHANGED <<mounted, muted, off, clicks, tracks, stream, asking, late, denied, room, setup>>

Next ==
  \/ Mount \/ Unmount \/ AnsweredLate \/ RequestMedia \/ MediaAnswered
  \/ ToggleMic \/ ToggleCamera \/ CameraAnswered \/ CameraRefused \/ TrackEnds
  \/ MatchFound \/ SetupMedia \/ SetupAnswered \/ Skip \/ PeerLeft

Spec == Init /\ [][Next]_vars

-----------------------------------------------------------------------------
(* Properties *)

(* The test plan's "Toggle camera off: ... remote peer sees black": while  *)
(* the button shows the camera off, no camera track is sent that is alive  *)
(* and enabled.                                                            *)
CameraOffIsBlack ==
  mounted /\ off => \A t \in sent \cap Video : ~(tracks[t].live /\ tracks[t].enabled)

==============================================================================

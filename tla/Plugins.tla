------------------------------ MODULE Plugins ------------------------------
(* The plug-ins that show the state of a service and the client sources,     *)
(* side by side.  They share their threads and nothing else, so              *)
(* one of them is looked at at a time (who): what the others do is a stutter *)
(* of its variables.                                                         *)
EXTENDS Plugin

CONSTANTS
  Songs, Artist, Embedded, Folder, Nil, MaxChanges, MaxCmds, MaxDrops,  \* of MpdSession
  Devs,                 \* of Bluez
  Nets, Levels,         \* of WifiIwd
  NetOf, Tens,          \* of WifiNm
  Apps, Timing, MaxNotes,  \* of Ncenter
  Sinks, Clients, Top,  \* of Pulse
  Lo, Hi, Percents, MaxTurns,  \* of Alsa
  Ifaces, Wrap, MaxMoves,      \* of Network
  MaxCalls                     \* of Clients

ASSUME SongsAssumption ==
  /\ Nil \notin Songs /\ DOMAIN Artist = Songs
  /\ Embedded \in [Songs -> Nat] /\ Folder \in [Songs -> Nat]
ASSUME NetsAssumption ==
  /\ "none" \notin Nets \cup Range(NetOf) \cup DOMAIN NetOf /\ "/" \notin DOMAIN NetOf
  /\ Levels \cup Tens \subseteq Nat \ {0}
ASSUME MixersAssumption ==
  /\ Sinks # {} /\ Sinks \cap Clients = {} /\ Top \in Nat
  /\ Lo \in Int /\ Hi \in Int /\ Lo + 2 <= Hi /\ Percents \subseteq Int /\ MaxTurns \in Nat
ASSUME AppsAssumption == Apps # {} /\ "none" \notin Apps /\ MaxNotes \in Nat
ASSUME IfacesAssumption == "none" \notin Ifaces /\ Wrap \in Nat \ {0}

VARIABLES
  who,
  song, idle, pending, link, req, rep, changes, cmds, drops, done, interrupted  \* of MpdSession

mpdVars == <<song, idle, pending, link, req, rep, changes, cmds, drops, done, interrupted>>
busVars == <<s, q, out, trig, rows, steps>>
allVars == <<who, m, mpdVars, busVars>>

Mpd == INSTANCE MpdSession
Bz == INSTANCE Bluez
Iwd == INSTANCE WifiIwd
Nm == INSTANCE WifiNm
Nc == INSTANCE Ncenter WITH MaxSteps <- MaxNotes
Pa == INSTANCE Pulse
Snd == INSTANCE Alsa WITH MaxSteps <- MaxTurns
Net == INSTANCE Network WITH MaxSteps <- MaxMoves
Cl == INSTANCE Clients WITH MaxSteps <- MaxCalls

ASSUME NilAssumption == Nil \notin Mpd!Names \cup {"init"}
ASSUME ClientsAssumption == Songs # {} /\ MaxCalls \in Nat

NoBus == s = Nil /\ q = Nil /\ out = Nil /\ trig = Nil /\ rows = Nil /\ steps = Nil
NoMpd == /\ song = Nil /\ idle = Nil /\ pending = Nil /\ link = Nil /\ req = Nil /\ rep = Nil
         /\ changes = Nil /\ cmds = Nil /\ drops = Nil /\ done = Nil /\ interrupted = Nil

Init ==
  \/ who = "mpd" /\ Mpd!Init /\ NoBus
  \/ /\ NoMpd
     /\ \/ who = "bluez"   /\ Bz!Init
        \/ who = "iwd"     /\ Iwd!Init
        \/ who = "nm"      /\ Nm!Init
        \/ who = "ncenter" /\ Nc!Init
        \/ who = "pulse"   /\ Pa!Init
        \/ who = "alsa"    /\ Snd!Init
        \/ who = "network" /\ Net!Init
        \/ who = "client"  /\ Cl!Init

\* A message is read, a trigger handled; what else goes on by itself; and what the
\* user and the world may do
Turns ==
  \/ who = "bluez"   /\ Bz!Turns  /\ UNCHANGED <<who, mpdVars>>
  \/ who = "iwd"     /\ Iwd!Turns /\ UNCHANGED <<who, mpdVars>>
  \/ who = "nm"      /\ Nm!Turns  /\ UNCHANGED <<who, mpdVars>>
  \/ who = "ncenter" /\ Nc!Turns  /\ UNCHANGED <<who, mpdVars>>
  \/ who = "pulse"   /\ Pa!Turns  /\ UNCHANGED <<who, mpdVars>>
  \/ who = "alsa"    /\ Snd!Turns /\ UNCHANGED <<who, mpdVars>>
  \/ who = "network" /\ Net!Turns /\ UNCHANGED <<who, mpdVars>>
  \/ who = "client"  /\ Cl!Turns /\ UNCHANGED <<who, mpdVars>>
Works ==
  \/ who = "mpd"     /\ Mpd!Works /\ UNCHANGED <<who, busVars>>
  \/ who = "bluez"   /\ Bz!Works  /\ UNCHANGED <<who, mpdVars>>
  \/ who = "iwd"     /\ Iwd!Works /\ UNCHANGED <<who, mpdVars>>
  \/ who = "nm"      /\ Nm!Works  /\ UNCHANGED <<who, mpdVars>>
  \/ who = "ncenter" /\ Nc!Works  /\ UNCHANGED <<who, mpdVars>>
  \/ who = "pulse"   /\ Pa!Works  /\ UNCHANGED <<who, mpdVars>>
  \/ who = "alsa"    /\ Snd!Works /\ UNCHANGED <<who, mpdVars>>
  \/ who = "network" /\ Net!Works /\ UNCHANGED <<who, mpdVars>>
  \/ who = "client"  /\ Cl!Works /\ UNCHANGED <<who, mpdVars>>
Acts ==
  \/ who = "mpd"     /\ Mpd!Acts /\ UNCHANGED <<who, busVars>>
  \/ who = "bluez"   /\ Bz!Acts  /\ UNCHANGED <<who, mpdVars>>
  \/ who = "iwd"     /\ Iwd!Acts /\ UNCHANGED <<who, mpdVars>>
  \/ who = "nm"      /\ Nm!Acts  /\ UNCHANGED <<who, mpdVars>>
  \/ who = "ncenter" /\ Nc!Acts  /\ UNCHANGED <<who, mpdVars>>
  \/ who = "pulse"   /\ Pa!Acts  /\ UNCHANGED <<who, mpdVars>>
  \/ who = "alsa"    /\ Snd!Acts /\ UNCHANGED <<who, mpdVars>>
  \/ who = "network" /\ Net!Acts /\ UNCHANGED <<who, mpdVars>>
  \/ who = "client"  /\ Cl!Acts /\ UNCHANGED <<who, mpdVars>>

\* The services and the bar's threads do what there is to do
Spec == Init /\ [][Turns \/ Works \/ Acts]_allVars
FairSpec ==
  /\ Spec /\ WF_allVars(Works)
  /\ WF_q(who # "mpd" /\ MessageTaken) /\ WF_trig(who # "mpd" /\ TriggerTaken)

----------------------------------------------------------------------------
(* Properties, of each plug-in in its module *)

\* Every variable keeps its type.
TypeOK ==
  CASE who = "mpd" -> Mpd!TypeOK
    [] who = "bluez" -> Bz!TypeOK
    [] who = "iwd" -> Iwd!TypeOK
    [] who = "nm" -> Nm!TypeOK
    [] who = "ncenter" -> Nc!TypeOK
    [] who = "pulse" -> Pa!TypeOK
    [] who = "alsa" -> Snd!TypeOK
    [] who = "network" -> Net!TypeOK
    [] who = "client" -> Cl!TypeOK

\* MPD: replies and commands stay in step, nothing but "noidle" is sent to a server
\* that waits in "idle", and the user's commands are run, in order and once.
\* So are those of a client source, but for what was lost with a connection, or
\* written to one that the service had closed.
CommandsRun == CASE who = "mpd" -> Mpd!InPhase /\ Mpd!IdleIsRespected /\ Mpd!CommandsRun
                 [] who = "client" -> Cl!CommandsRun
                 [] OTHER -> TRUE

\* MPD: the song and its tags are those at the last trigger, the cover is that of
\* the song.
SongShown == who = "mpd" => Mpd!SongShown /\ Mpd!CoverShown

\* The D-Bus services and the network: what the triggers' handlers have made of the
\* rows, the buttons and the dialogs is what the service has, and the interface that
\* is shown, with its address, is that of the best default route.
ShownAsIs ==
  CASE who = "bluez" -> Bz!ShownAsIs
    [] who = "iwd" -> Iwd!ShownAsIs
    [] who = "nm" -> Nm!ShownAsIs
    [] who = "network" -> Net!RouteShown
    [] who = "client" -> Cl!ShownAsIs
    [] OTHER -> TRUE

\* The notification centre: the rows, the groups and the clients agree with the
\* list of notifications.
NotificationsShown == who = "ncenter" => Nc!NotificationsShown

\* The sound servers: the rows are those of the devices, and show their volumes
\* and the default; a copy that is not the card's is about to be renewed; what is set
\* is what the user can have meant.  That needs a range of levels from 0, as this run's
\* is (alsactl.c:431 sets it off by the lowest level).  ALSA's rows are left out once
\* its mixers bailed out (early) or were opened twice (again).
MixerShown == CASE who = "pulse" -> Pa!MixerShown
                [] who = "alsa" -> Snd!CardShown /\ Snd!CopiesFollow /\ Snd!LevelAsMeant
                [] OTHER -> TRUE

Quiet ==
  CASE who = "mpd" -> Mpd!Quiet
    [] who = "bluez" -> Bz!Quiet
    [] who = "iwd" -> Iwd!Quiet
    [] who = "nm" -> Nm!Quiet
    [] who = "ncenter" -> Nc!Quiet
    [] who = "pulse" -> Pa!Quiet
    [] who = "alsa" -> Snd!Quiet
    [] who = "network" -> Net!Quiet
    [] who = "client" -> Cl!Quiet

\* Every plug-in comes to rest when nothing happens any more: MPD waits in
\* "idle", all calls are answered, all scans end, all timers have run out, all
\* triggers are handled.
Settles == <>[]Quiet
=============================================================================

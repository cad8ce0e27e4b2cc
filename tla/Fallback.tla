------------------------------- MODULE Fallback -------------------------------
(***************************************************************************)
(* The channel that works when the alert store does not (fallback.py):     *)
(* where a message given to notify() lands, for the settings s of a        *)
(* deployment and the state w of the world at that moment.                 *)
(*                                                                         *)
(* Of the texts only the presence matters: a chat id, a token or a thread  *)
(* id is configured or not.  A message lands in the forum's topic, in its  *)
(* General tab, with the host's own callable, or nowhere; notify() answers *)
(* whether it went out, which is that it landed somewhere.                 *)
(***************************************************************************)

\* STAPEL_ALERTS["NOTIFY"]: "none" or empty; "telegram"; a callable or a
\* dotted path that imports; anything else.  STAPEL_ALERTS["FALLBACK"].
Settings == [notify: {"none", "telegram", "seam", "unusable"},
             token: BOOLEAN, chat: BOOLEAN, topic: BOOLEAN]

\* stapel-notifications' channel is absent, or takes a thread id or does not;
\* its provider sends or raises; the Bot API answers 2xx or not; the host's
\* callable answers true or not (or raises).
Worlds == [library: {"absent", "threaded", "unthreaded"}, provider: BOOLEAN,
           api: BOOLEAN, seam: BOOLEAN]

Addressed(s) == IF s.topic THEN "topic" ELSE "general"

ViaLibraryAnyhow(s, w) ==
  IF w.library # "absent" /\ w.provider
    THEN IF w.library = "threaded" THEN Addressed(s) ELSE "general"
    ELSE "nowhere"
\* _via_notifications: a topic this channel cannot address is not dropped, the
\* message falls through to the Bot API.
ViaLibrary(s, w) ==
  IF /\ w.library # "absent"
     /\ s.topic => w.library = "threaded"
     /\ w.provider
    THEN Addressed(s)
    ELSE "nowhere"

\* _via_bot_api: one POST, when there is a token and a chat to post to.
ViaBotApi(s, w) ==
  IF s.token /\ s.chat /\ w.api THEN Addressed(s) ELSE "nowhere"

\* send_telegram: the library's channel first, the direct API when it fails.
SendTelegram(s, w) ==
  IF s.chat /\ ViaLibrary(s, w) # "nowhere" THEN ViaLibrary(s, w)
                                            ELSE ViaBotApi(s, w)

\* notify
Lands(s, w) ==
  CASE s.notify = "telegram" -> SendTelegram(s, w)
    [] s.notify = "seam"     -> IF w.seam THEN "seam" ELSE "nowhere"
    [] OTHER                 -> "nowhere"

GoesOut(s, w) == Lands(s, w) # "nowhere"

\* Somebody could hear: the callable answers, or one of the two ways to the
\* chat can carry the message where it is addressed.
Reachable(s, w) ==
  \/ s.notify = "seam" /\ w.seam
  \/ /\ s.notify = "telegram" /\ s.chat
     /\ \/ s.token /\ w.api
        \/ w.library = "threaded" /\ w.provider
        \/ w.library = "unthreaded" /\ w.provider /\ ~ s.topic

=============================================================================

-------------------------- MODULE CommandPublishers ---------------------------
(* Publishers that start a command or send requests: zhihu_cli.py,           *)
(* youtube_cli.py, xhs_skills.py, social_auto_upload.py, wechat_mp_api.py.   *)
(* A command may have written although it failed, was killed or its pipe     *)
(* broke; only what it reported about its post is evidence.                  *)
EXTENDS PublisherCalls

\* A check before the command is started: it passes, or the call ends clean.
Check(a, place, next) == By({a}, place) /\ (Returns(Clean) \/ GoTo(next))

\* The command line starts, or cannot be started at all.
Starts(a)      == By({a}, "spawn") /\ Send("wait")
NotStarted(a)  == By({a}, "spawn") /\ Returns(Clean)

\* It ends, is stopped at its time limit, or can no longer be read.
NoReceipt(a) == By({a}, "wait") /\ Returns(Unknown)

-----------------------------------------------------------------------------
(* zhihu_cli.py                                                              *)

ZhihuPayload == Check("zhihu_cli", "start", "version")
ZhihuVersion == Check("zhihu_cli", "version", IF exact THEN "images" ELSE "session")
ZhihuSession == Check("zhihu_cli", "session", "images")
ZhihuImages  == Check("zhihu_cli", "images", IF exact THEN "identity" ELSE "spawn")

\* A mistake: any healthy session will do.
BugAccountMatches == TRUE

\* The exact approval names the account the profile must be logged in to.
AccountMatches == profile = Approved
ZhihuIdentity ==
    /\ By({"zhihu_cli"}, "identity")
    /\ \/ AccountMatches /\ GoTo("spawn")
       \/ Returns(CleanFinal)

\* It printed the number and the address; only with exit code 0 is that a
\* success.
ZhihuConfirmed ==
    /\ By({"zhihu_cli"}, "wait") /\ Mine("post")
    /\ Returns(Published(cur)) \/ Returns(Doubtful(cur))

ZhihuCli ==
    \/ ZhihuPayload \/ ZhihuVersion \/ ZhihuSession \/ ZhihuImages \/ ZhihuIdentity
    \/ Starts("zhihu_cli") \/ NotStarted("zhihu_cli") \/ NoReceipt("zhihu_cli")
    \/ ZhihuConfirmed

-----------------------------------------------------------------------------
(* youtube_cli.py: the receipt file is read however the command ended, and   *)
(* a video with another privacy than asked for is no success.                *)

YoutubeVersion  == Check("youtube", "start", "auth")
YoutubeAuth     == Check("youtube", "auth", "video")
YoutubeVideo    == Check("youtube", "video", "metadata")
YoutubeMetadata == Check("youtube", "metadata", "spawn")

YoutubeConfirmed ==
    /\ By({"youtube"}, "wait") /\ Mine("post")
    /\ Returns(Published(cur)) \/ Returns(Partial(cur))

\* The run directory or its files cannot be made.
YoutubeRaises == By({"youtube"}, "spawn") /\ Raises

Youtube ==
    \/ YoutubeVersion \/ YoutubeAuth \/ YoutubeVideo \/ YoutubeMetadata
    \/ Starts("youtube") \/ NotStarted("youtube") \/ NoReceipt("youtube")
    \/ YoutubeConfirmed \/ YoutubeRaises

-----------------------------------------------------------------------------
(* xhs_skills.py and social_auto_upload.py report no post at all.            *)

XhsSkills ==
    \/ Check("xhs_skills", "start", "spawn")
    \/ Starts("xhs_skills") \/ NotStarted("xhs_skills") \/ NoReceipt("xhs_skills")

\* The cookie file is replaced; an unsafe path or an error raises.  Then the
\* HTTP back end or the command is chosen, or there is neither.
SauCookie ==
    /\ By({"sau"}, "start")
    /\ Raises \/ GoTo("spawn") \/ GoTo("request") \/ Returns(CleanFinal)

SauCommand ==
    \/ Starts("sau") \/ NotStarted("sau") \/ NoReceipt("sau")

\* A request that fails may have arrived, and its answer names no post.
SauRequest ==
    /\ By({"sau"}, "request")
    /\ Send("wait") \/ Returns(Unknown)

Sau == SauCookie \/ SauCommand \/ SauRequest

-----------------------------------------------------------------------------
(* wechat_mp_api.py: a draft is created, then its publication is submitted.  *)

Api == {"wechat_mp_api"}

\* Text, cover file and body: nothing that is published exists yet.
ApiContent == By(Api, "start") /\ (Returns(CleanFinal) \/ GoTo("token"))
ApiToken   == By(Api, "token") /\ (Returns(CleanFinal) \/ GoTo("cover"))

\* The cover becomes material of the account, which is no publication.
ApiCover == By(Api, "cover") /\ (Returns(CleanFinal) \/ Returns(Unknown) \/ GoTo("add"))

AddDraft == By(Api, "add") /\ Send("draft")

\* A refusal is an answer with an error code.
DraftAnswered ==
    /\ By(Api, "draft")
    /\ \/ Returns(Unknown)
       \/ Mine("refused") /\ Returns(CleanFinal)
       \/ Mine("draft") /\ GoTo("submit")

Submit ==
    /\ By(Api, "submit") /\ Mine("draft")
    /\ at' = "submitted"
    /\ calls' = [calls EXCEPT ![cur].write = "submitted"]
    /\ UNCHANGED <<worker, pending, swallowed>> /\ WorldStays

\* An answer without publish_id leaves the draft; no answer leaves everything
\* open; with a publish_id the article counts as published, found or not.
SubmitAnswered ==
    /\ By(Api, "submitted")
    /\ \/ Returns(Partial(None))
       \/ Returns(Doubtful(None))
       \/ GoTo("poll")
PollEnds == By(Api, "poll") /\ Returns(Published(cur))

WechatMpApi ==
    \/ ApiContent \/ ApiToken \/ ApiCover \/ AddDraft \/ DraftAnswered
    \/ Submit \/ SubmitAnswered \/ PollEnds

Command == ZhihuCli \/ Youtube \/ XhsSkills \/ Sau \/ WechatMpApi
=============================================================================

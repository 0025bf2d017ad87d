-------------------------- MODULE BrowserPublishers ---------------------------
(* Publishers that drive a browser: zhihu.py, toutiao.py, baijiahao.py,      *)
(* sohuhao.py and wechat_mp.py, which close the browser in a finally of a    *)
(* try that catches every exception, and xhs_camoufox.py, which does not.    *)
EXTENDS PublisherCalls

CardReaders == {"toutiao", "baijiahao", "sohuhao"}
EditorKinds == {"zhihu", "baijiahao", "sohuhao"}

\* Content type, cookies or profile directory.
RejectInput(a) == By({a}, "start") /\ Returns(Clean)
Launch(a)      == By({a}, "start") /\ GoTo("compose")

\* Launching, filling in the title and the body, a button that is not there.
ComposeFails(a) == By({a}, "compose") /\ Returns(Clean)

\* The last button: everything after it counts as written.
Click(a) == By({a}, "compose") /\ Send("observe")

Close(r) ==
    /\ at' = "close" /\ pending' = r
    /\ UNCHANGED <<worker, calls, swallowed>> /\ WorldStays

\* A mistake: an exception after the click is taken for one before it.
BugObserveFails(a) == By({a}, "observe") /\ Close(Clean)

\* An exception after the click, a page that proves nothing.
ObserveFails(a) == By({a}, "observe") /\ Close(Unknown)

\* The browser is closed; an exception while closing keeps the result.
CloseBrowser(a) == By({a}, "close") /\ Returns(pending)

\* A cancellation arrives and closing the browser raises: the exception takes
\* the place of the cancellation, and the outer except returns a result.
CloseCancelled(a) ==
    \/ \E place \in {"compose", "observe"} : By({a}, place) /\ Swallows(Clean)
    \/ By({a}, "close") /\ Swallows(pending)

BrowserCall(a) ==
    \/ RejectInput(a) \/ Launch(a) \/ ComposeFails(a) \/ Click(a)
    \/ ObserveFails(a) \/ CloseBrowser(a) \/ CloseCancelled(a)

\* A mistake: the address of the editor passes for the article.
BugReadAddress == Now.write \in {"post", "draft"} /\ Close(Published(cur))

\* The page went to the address of the article.
ReadAddress == Mine("post") /\ Close(Published(cur))

\* The page is still the editor's, with the number of the draft it saved, while
\* the publication may be under way; or the newest card is some draft's.
EditorAddress(a) ==
    /\ By({a} \cap EditorKinds, "observe")
    /\ Now.write \in {"draft", "submitted"} \/ a \in CardReaders
    /\ Close(Partial(None))

\* The first card of the list of the account's works, whatever it is.
NewestCard(a) == By({a}, "observe") /\ listing # <<>> /\ Close(Published(Head(listing)))

\* The editor shows the number of the draft it saved.
ReadDraft == By({"wechat_mp"}, "observe") /\ Mine("draft") /\ Close(Partial(cur))

Zhihu ==
    BrowserCall("zhihu") \/ (By({"zhihu"}, "observe") /\ ReadAddress) \/ EditorAddress("zhihu")
Toutiao   == BrowserCall("toutiao") \/ NewestCard("toutiao")
Baijiahao == BrowserCall("baijiahao") \/ NewestCard("baijiahao") \/ EditorAddress("baijiahao")
Sohuhao   == BrowserCall("sohuhao") \/ NewestCard("sohuhao") \/ EditorAddress("sohuhao")
WechatMp  == BrowserCall("wechat_mp") \/ ReadDraft

-----------------------------------------------------------------------------
(* xhs_camoufox.py: only single steps are guarded, what else fails raises.   *)

Camoufox == {"xhs_camoufox"}

\* No media, or media that is not a local file.
CamoufoxRejects == By(Camoufox, "start") /\ Returns(Clean)

\* The feed is browsed for a while first; only a lost login ends the call there.
CamoufoxBrowses ==
    /\ By(Camoufox, "start")
    /\ GoTo("compose") \/ Returns(Clean)

\* A banner of risk control, an upload that takes over a minute.
CamoufoxComposeFails == By(Camoufox, "compose") /\ Returns(Clean)
CamoufoxClicks       == By(Camoufox, "compose") /\ Send("clicked")
CamoufoxClickFails   == By(Camoufox, "clicked") /\ Returns(Unknown)
CamoufoxWaits        == By(Camoufox, "clicked") /\ GoTo("confirm")

\* Half a minute of looking for the public address of the note.
CamoufoxConfirms ==
    /\ By(Camoufox, "confirm")
    /\ \/ Mine("post") /\ Returns(Published(cur))
       \/ Returns(Unknown)
       \/ Now.write \in {"sent", "post"} /\ Returns(Doubtful(None))

CamoufoxRaises ==
    /\ \E place \in {"start", "compose", "confirm"} : By(Camoufox, place)
    /\ Raises

XhsCamoufox ==
    \/ CamoufoxRejects \/ CamoufoxBrowses \/ CamoufoxComposeFails
    \/ CamoufoxClicks \/ CamoufoxClickFails \/ CamoufoxWaits
    \/ CamoufoxConfirms \/ CamoufoxRaises

Browser == Zhihu \/ Toutiao \/ Baijiahao \/ Sohuhao \/ WechatMp \/ XhsCamoufox
=============================================================================

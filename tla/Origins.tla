------------------------------ MODULE Origins ------------------------------
(***************************************************************************)
(* Which page a stored login belongs to: parseOrigin and matchOrigin of    *)
(* packages/domain, trustedContentSender and decideFill of the extension   *)
(* adapters, and what the content script looks at before it offers a form  *)
(* and again before it fills one.  A URL is a record of what these         *)
(* functions tell apart.                                                   *)
(***************************************************************************)

UrlOf(scheme, host, port) == [scheme |-> scheme, host |-> host, port |-> port]
Unparseable == UrlOf("", "", "")
Absent == UrlOf("absent", "", "")   \* no formAction

\* The URL recorded with a login item.
ItemUrl == UrlOf("https:", "site", "")

\* The same origin written out, and what differs from it in one part.
Url == {ItemUrl, UrlOf("https:", "site", "443"), UrlOf("http:", "site", ""), UrlOf("https:", "subdomain.site", ""),
        UrlOf("https:", "site", "8443"), Unparseable}

DefaultPort == [scheme \in {"http:", "https:"} |-> IF scheme = "http:" THEN "80" ELSE "443"]

\* parseOrigin, for a URL that has a host.
ParseOrigin(u) == [u EXCEPT !.port = IF @ = "" THEN DefaultPort[u.scheme] ELSE @]

\* matchOrigin: scheme, host and port, and nothing that does not parse.
MatchOrigin(item, page) ==
    item # Unparseable /\ page # Unparseable /\ ParseOrigin(item) = ParseOrigin(page)

Secure(u) == u # Unparseable /\ u.scheme = "https:"

\* trustedContentSender, from what the browser says of a sender.
TrustedContentSender(sender) == sender.frame = "top" /\ Secure(sender.url)

\* candidatesFor and decideFill, for one item.
DecideFill(request, pageOrigin) ==
    /\ MatchOrigin(ItemUrl, pageOrigin)
    /\ request.isTopFrame
    /\ Secure(request.pageUrl)
    /\ request.usernameVisible /\ request.passwordVisible
    /\ request.formAction # Absent => MatchOrigin(request.pageUrl, request.formAction)
    /\ MatchOrigin(pageOrigin, request.pageUrl)

\* A page as its content script sees it.
Login == [frame |-> "top", url |-> ItemUrl, action |-> ItemUrl, form |-> TRUE,
          username |-> TRUE, password |-> TRUE, identified |-> TRUE]
Page ==
    {[Login EXCEPT !.url = u, !.action = u] : u \in Url} \cup {[Login EXCEPT !.action = u] : u \in Url}
    \cup {[Login EXCEPT !.frame = "sub"], [Login EXCEPT !.form = FALSE], [Login EXCEPT !.username = FALSE],
          [Login EXCEPT !.password = FALSE], [Login EXCEPT !.identified = FALSE]}

\* A form with a visible password that gets the focus is offered ...
Focused(p) == p.form /\ p.password

\* ... with this metadata, ...
OfferMetadata(p) ==
    [pageUrl |-> p.url, isTopFrame |-> p.frame = "top", formAction |-> p.action,
     usernameVisible |-> p.username, passwordVisible |-> p.password]

\* ... or with what else parseContentMessage admits: a fillable page, whatever the
\* sender's is, without the optional action.
Metadata(p) == {OfferMetadata(p), [OfferMetadata(Login) EXCEPT !.formAction = Absent]}

\* The content script's last look before it assigns the values.
Assigns(p, origin) ==
    /\ p.form /\ p.frame = "top"
    /\ Secure(p.url) /\ MatchOrigin(origin, p.url)
    /\ MatchOrigin(p.action, p.url)
    /\ p.username /\ p.password
=============================================================================

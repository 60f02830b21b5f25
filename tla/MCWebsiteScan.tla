--------------------------- MODULE MCWebsiteScan ---------------------------
(* A site of four URLs: a policy page robots.txt forbids, and a seed that may
   not exist or redirects to it. *)
EXTENDS WebsiteScan

CONSTANTS home, about, refund, blog

SiteScore == (home :> 120) @@ (about :> 70) @@ (refund :> 60) @@ (blog :> 30)
SiteCategory == (home :> "HOME") @@ (about :> "ABOUT")
                @@ (refund :> "POLICIES") @@ (blog :> "OTHER")
OneEach == [c \in ToSet(Categories) |-> 1]
SiteLinks == (home :> <<blog, refund>>) @@ (about :> <<home, blog>>)
             @@ (refund :> <<>>) @@ (blog :> <<about>>)
SiteRedirects == (about :> {refund}) @@ [u \in {home, refund, blog} |-> {}]
SiteFetches == (home :> {"page", "error"}) @@ (about :> {"page", "missing"})
               @@ (refund :> {"page"}) @@ (blog :> {"page"})
=============================================================================

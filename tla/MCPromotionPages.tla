-------------------------- MODULE MCPromotionPages --------------------------
(* The instance of MCSocialPromotions behind its pages.                      *)
EXTENDS MCSocialPromotions, PromotionPages

\* Every outcome of loading and parsing is one that ReadPost allows.  A post
\* goes to technical review exactly when the first plain request fails, even if
\* the browser could have loaded the page; otherwise the reading is valid as
\* soon as the page that was read last is.
ASSUME ReadingsAreCovered ==
    \A enabled, stays \in BOOLEAN, page, again, shown \in PublicPage \cup {Failed},
       redirects \in {0, MAX_REDIRECTS + 1} :
        LET fetched == loadWithFetch(page, redirects, TRUE)
            browser == loadWithPlaywright(shown, stays)
            found == loadAndParse(enabled, fetched, browser, again, again)
        IN  /\ found = Failed <=> fetched = Failed
            /\ found # Failed => found \in Reading
            /\ found # Failed /\ enabled /\ browser # Failed =>
                  found = parsePublicContent(browser)
            /\ found # Failed /\ ~enabled => found.valid = parsePublicContent(fetched).valid
=============================================================================

---------------------------- MODULE MCStaticLoad ----------------------------
(* Feeds with one calendar, with the other one, and with both.              *)
EXTENDS StaticLoad

CONSTANTS l1, l2

ThreeFeeds == <<{"stops", "calendar"},
                {"stops", "calendar_dates"},
                {"stops", "calendar", "calendar_dates"}>>

============================================================================

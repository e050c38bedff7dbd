------------------------------ MODULE MCServices ------------------------------
(***************************************************************************)
(* The services around the core, side by side: each initial state chooses  *)
(* the one that runs, from all of its own initial states, and the others   *)
(* stay where they start.  What they share with each other and with the    *)
(* core is in their own modules.                                           *)
(***************************************************************************)
EXTENDS RateLimiter, Startup, PushDelivery, Realtime, SosFeed, Tracking, Listing, Access,
        LiveLocation, PhoneRealtime

VARIABLE running

servicesVars == <<limiterVars, startupVars, pushVars, realtimeVars, feedVars, trackingVars,
                  listingVars, accessVars, sharingVars, phoneVars, running>>

\* Where a service stays that does not run.
AtRest ==
    /\ running # "push" => provider = "mock"
    /\ running # "realtime" => /\ standing = [a \in Accounts |-> "user"]
                               /\ \A s, t \in Sockets : sock[s] = sock[t]
                               /\ \A s \in Sockets : sock[s].user = CHOOSE x \in Accounts : TRUE
    /\ running # "feed" => status = [i \in Incidents |-> 0]
    /\ running # "tracking" => \A t \in Tags : tag[t].owner = CHOOSE p \in Persons : TRUE
    /\ running # "listing" => rows = {}
    /\ running # "access" => account = [h \in Holders |-> "user"]
    /\ running # "sharing" => updates = 0
    /\ running # "phone" => somebody = FALSE

ServicesInit ==
    /\ running \in {"limiter", "startup", "push", "realtime", "feed", "tracking", "listing",
                   "access", "sharing", "phone"}
    /\ LimiterInit /\ StartupInit /\ PushInit /\ RealtimeInit
    /\ FeedInit /\ TrackingInit /\ ListingInit /\ AccessInit
    /\ SharingInit /\ PhoneInit
    /\ AtRest

Limiter == running = "limiter" /\ LimiterNext
           /\ UNCHANGED <<startupVars, pushVars, realtimeVars, feedVars, trackingVars,
                         listingVars, accessVars, sharingVars, phoneVars, running>>
StartupRuns == running = "startup" /\ StartupNext
           /\ UNCHANGED <<limiterVars, pushVars, realtimeVars, feedVars, trackingVars,
                         listingVars, accessVars, sharingVars, phoneVars, running>>
Push == running = "push" /\ PushNext
           /\ UNCHANGED <<limiterVars, startupVars, realtimeVars, feedVars, trackingVars,
                         listingVars, accessVars, sharingVars, phoneVars, running>>
RealtimeRuns == running = "realtime" /\ RealtimeNext
           /\ UNCHANGED <<limiterVars, startupVars, pushVars, feedVars, trackingVars,
                         listingVars, accessVars, sharingVars, phoneVars, running>>
FeedRuns == running = "feed" /\ FeedNext
           /\ UNCHANGED <<limiterVars, startupVars, pushVars, realtimeVars, trackingVars,
                         listingVars, accessVars, sharingVars, phoneVars, running>>
TrackingRuns == running = "tracking" /\ TrackingNext
           /\ UNCHANGED <<limiterVars, startupVars, pushVars, realtimeVars, feedVars,
                         listingVars, accessVars, sharingVars, phoneVars, running>>
ListingRuns == running = "listing" /\ ListingNext
           /\ UNCHANGED <<limiterVars, startupVars, pushVars, realtimeVars, feedVars,
                         trackingVars, accessVars, sharingVars, phoneVars, running>>
AccessRuns == running = "access" /\ AccessNext
           /\ UNCHANGED <<limiterVars, startupVars, pushVars, realtimeVars, feedVars,
                         trackingVars, listingVars, sharingVars, phoneVars, running>>
SharingRuns == running = "sharing" /\ SharingNext
           /\ UNCHANGED <<limiterVars, startupVars, pushVars, realtimeVars, feedVars,
                         trackingVars, listingVars, accessVars, phoneVars, running>>
PhoneRuns == running = "phone" /\ PhoneNext
           /\ UNCHANGED <<limiterVars, startupVars, pushVars, realtimeVars, feedVars,
                         trackingVars, listingVars, accessVars, sharingVars, running>>

ServicesNext ==
    \/ Limiter \/ StartupRuns \/ Push \/ RealtimeRuns
    \/ FeedRuns \/ TrackingRuns \/ ListingRuns \/ AccessRuns
    \/ SharingRuns \/ PhoneRuns

\* RealtimeFairness, FeedFairness and PhoneFairness, of the service that runs.
ServicesFairness ==
    /\ \A e \in Emits : WF_realtimeVars(running = "realtime" /\ ServerStep(e))
    /\ WF_feedVars(running = "feed" /\ (ConnectPage \/ Handshake \/ OnClose))
    /\ WF_feedVars(running = "feed" /\ \E event \in unsent : EventArrives(event))
    /\ WF_feedVars(running = "feed" /\ (AnswerList \/ ApplyList))
    /\ \A s \in PhoneSockets :
          WF_phoneVars(running = "phone" /\ (OnPhoneClose(s) \/ PhoneHandshake(s)))
    /\ WF_phoneVars(running = "phone" /\ RetryTimer)

ServicesSpec == ServicesInit /\ [][ServicesNext]_servicesVars /\ ServicesFairness

\* The page connects again whenever it is the page that runs.
ServedMonitorReturns == running = "feed" => MonitorReturns

\* The services' states are of their types.
ServicesTypeOK ==
    /\ LimiterTypeOK /\ StartupTypeOK /\ PushTypeOK /\ RealtimeTypeOK
    /\ FeedTypeOK /\ TrackingTypeOK /\ ListingTypeOK /\ AccessTypeOK
    /\ SharingTypeOK /\ PhoneTypeOK

=============================================================================

------------------------------- MODULE Platform ------------------------------
\* The services, pages and screens that share no state with each other, side by side.
\* A behaviour follows one of them, its subject; the others stay where they start.
EXTENDS SignIn, Accounts, Pricing, Switches, TradeCreation, TradePages, Evidence, Cases,
  Records, Clawbacks, Audits, AdminRequests, ClientStores, Phone

PlatformInit ==
  /\ subject = NoSubject
  /\ SignInInit
  /\ AccountsInit
  /\ PricingInit
  /\ SwitchesInit
  /\ CreationInit
  /\ TradePagesInit
  /\ ProofsInit
  /\ CasesInit
  /\ RecordsInit
  /\ ClawbacksInit
  /\ AuditsInit
  /\ AdminRequestsInit
  /\ ClientStoresInit
  /\ PhoneInit

PlatformNext ==
  \/ /\ SignInNext
     /\ UNCHANGED <<accountsVars, pricingVars, switchVars, creationVars, tradePagesVars,
                   proofsVars, casesVars, recordsVars, clawbacksVars, auditsVars,
                   adminRequestsVars, clientStoresVars, phoneAppVars>>
  \/ /\ AccountsNext
     /\ UNCHANGED <<signInVars, pricingVars, switchVars, creationVars, tradePagesVars,
                   proofsVars, casesVars, recordsVars, clawbacksVars, auditsVars,
                   adminRequestsVars, clientStoresVars, phoneAppVars>>
  \/ /\ PricingNext
     /\ UNCHANGED <<signInVars, accountsVars, switchVars, creationVars, tradePagesVars,
                   proofsVars, casesVars, recordsVars, clawbacksVars, auditsVars,
                   adminRequestsVars, clientStoresVars, phoneAppVars>>
  \/ /\ SwitchesNext
     /\ UNCHANGED <<signInVars, accountsVars, pricingVars, creationVars, tradePagesVars,
                   proofsVars, casesVars, recordsVars, clawbacksVars, auditsVars,
                   adminRequestsVars, clientStoresVars, phoneAppVars>>
  \/ /\ CreationNext
     /\ UNCHANGED <<signInVars, accountsVars, pricingVars, switchVars, tradePagesVars,
                   proofsVars, casesVars, recordsVars, clawbacksVars, auditsVars,
                   adminRequestsVars, clientStoresVars, phoneAppVars>>
  \/ /\ TradePagesNext
     /\ UNCHANGED <<signInVars, accountsVars, pricingVars, switchVars, creationVars,
                   proofsVars, casesVars, recordsVars, clawbacksVars, auditsVars,
                   adminRequestsVars, clientStoresVars, phoneAppVars>>
  \/ /\ ProofsNext
     /\ UNCHANGED <<signInVars, accountsVars, pricingVars, switchVars, creationVars,
                   tradePagesVars, casesVars, recordsVars, clawbacksVars, auditsVars,
                   adminRequestsVars, clientStoresVars, phoneAppVars>>
  \/ /\ CasesNext
     /\ UNCHANGED <<signInVars, accountsVars, pricingVars, switchVars, creationVars,
                   tradePagesVars, proofsVars, recordsVars, clawbacksVars, auditsVars,
                   adminRequestsVars, clientStoresVars, phoneAppVars>>
  \/ /\ RecordsNext
     /\ UNCHANGED <<signInVars, accountsVars, pricingVars, switchVars, creationVars,
                   tradePagesVars, proofsVars, casesVars, clawbacksVars, auditsVars,
                   adminRequestsVars, clientStoresVars, phoneAppVars>>
  \/ /\ ClawbacksNext
     /\ UNCHANGED <<signInVars, accountsVars, pricingVars, switchVars, creationVars,
                   tradePagesVars, proofsVars, casesVars, recordsVars, auditsVars,
                   adminRequestsVars, clientStoresVars, phoneAppVars>>
  \/ /\ AuditsNext
     /\ UNCHANGED <<signInVars, accountsVars, pricingVars, switchVars, creationVars,
                   tradePagesVars, proofsVars, casesVars, recordsVars, clawbacksVars,
                   adminRequestsVars, clientStoresVars, phoneAppVars>>
  \/ /\ AdminRequestsNext
     /\ UNCHANGED <<signInVars, accountsVars, pricingVars, switchVars, creationVars,
                   tradePagesVars, proofsVars, casesVars, recordsVars, clawbacksVars,
                   auditsVars, clientStoresVars, phoneAppVars>>
  \/ /\ ClientStoresNext
     /\ UNCHANGED <<signInVars, accountsVars, pricingVars, switchVars, creationVars,
                   tradePagesVars, proofsVars, casesVars, recordsVars, clawbacksVars,
                   auditsVars, adminRequestsVars, phoneAppVars>>
  \/ /\ PhoneNext
     /\ UNCHANGED <<signInVars, accountsVars, pricingVars, switchVars, creationVars,
                   tradePagesVars, proofsVars, casesVars, recordsVars, clawbacksVars,
                   auditsVars, adminRequestsVars, clientStoresVars>>

-----------------------------------------------------------------------------
\* Every part keeps its variables in their types.
PlatformTypeOK ==
  /\ SignInTypeOK
  /\ AccountsTypeOK
  /\ PricingTypeOK
  /\ SwitchesTypeOK
  /\ CreationTypeOK
  /\ TradePagesTypeOK
  /\ ProofsTypeOK
  /\ CasesTypeOK
  /\ RecordsTypeOK
  /\ ClawbacksTypeOK
  /\ AuditsTypeOK
  /\ AdminRequestsTypeOK
  /\ ClientStoresTypeOK
  /\ PhoneTypeOK

\* What is on a screen is about what the screen says it is about, whatever
\* answers came late, out of order or not at all: lists belong to the page and
\* filter they are shown under, details and forecasts to the row and the amount
\* shown, a wallet and its figures to the account signed in, a success to the
\* thing that was sent. Each conjunct names the overtaking its code does not
\* rule out.
ShownIsCurrent ==
  /\ WorksOnShownDispute /\ ToldRulingIsShown /\ ListMatchesFilter
  /\ RowsOfThePage /\ RowsOfAuditPage /\ ForecastAnswersEntry
  /\ AskedPageExists /\ EmptyTableMeansNoMatch
  /\ SettledResultsAnswerQuery /\ EntriesAnswerTheirKey /\ ShownAnswersKey
  /\ SettledListMatchesServer
  /\ ShownIdentityIsCurrent /\ LoadingMeansAwaited /\ ReputationIsMine
  /\ ResultIsOfText /\ ManifestShownWasTaken /\ DialogTellsTheTruth
  /\ WearsSelectedTheme
  /\ ActsOnShownTrade /\ UploadedIsTheCapture /\ HashOfShownTransaction
  /\ ResultOfLastRun /\ QuietSwitchMatches

\* What must happen once happens once, through replays, remounts and races: a
\* queued submission creates one trade (useOfflineQueue), the wallet is asked
\* for one signature at a time (trade page, vault, evidence dialog), a link
\* opens once, a crash is reported once under the reference that is quoted, a
\* request is answered once (adminTimeout.middleware) and the flags are fetched
\* once at a time.
DoneOnce ==
  /\ SubmittedOnce /\ OneWalletPrompt /\ OneSignatureAtATime /\ OneManifestInFlight
  /\ OpenedOncePerLink /\ ReportedOncePerCrash /\ QuotedWasReported
  /\ AnsweredOnce /\ OneFlagFetch

\* What a user handed over is not lost to a reload, a restart, a rotation or a
\* failed attempt: queued submissions, wizard data, drafts, parked links, files,
\* sealed texts, deliveries signed with the old secret, the stored theme and a
\* profile that a sign-in races with.
NothingLost ==
  /\ [](/\ QueuedUntilExecuted /\ DraftSurvives /\ LoginContinues
        /\ OpenedIsWritten /\ RecordedFilesWhole /\ SubmittedIsHeld
        /\ BrowsingIsNotSelecting)
  /\ ReloadKeepsData /\ RotationLeavesNothing /\ RotationDropsNothing
  /\ SignInKeepsProfile

\* A session ends when it was ended and not otherwise: challenges and refreshes
\* are used once, revoked sessions are refused for good (auth.service.ts), the
\* browser's session ends with its token and with a logout, an admin is not sent
\* away while signed in, and a signed callback is handled only while fresh.
SessionsEnd ==
  /\ ChallengeUsedOnce /\ EndedSessionsStayEnded /\ RefreshedOnce
  /\ SessionWithinToken /\ SignedOutStaysOut /\ AddressedAsSigned
  /\ AdminSentAwayEarly /\ HandledWhileFresh

\* What the backend stores agrees with what it told and with its other tables
\* when requests overlap: preferences add up, disputes keep a live category, a
\* transaction is handed out for the recorded manifest and for projected rows
\* only, bulk rows called created are recorded, and toggles called done are
\* audited.
RecordsMatch ==
  /\ ChoicesAddUp /\ NumberIsTheConfirmedOne
  /\ DisputeUnderLiveCategory
  /\ XdrCarriesRecordedManifest /\ AnsweredIdUnlessOvertaken /\ OnlyProjectedRowsServed
  /\ CreatedRowsAreRecorded /\ DoneTogglesAudited /\ RaceStillServesRow

\* A report says what happened, although the tables move while it is made: drift
\* alerts and outbox gaps are real and none is missed, pages list each row once,
\* the chain of audit entries tells tampering, scores and milestones are
\* explained by what took place, and CI calls a test flaky for its runs.
ReportsAreTrue ==
  /\ MissingFundsAlerted /\ AlarmsAreReal
  /\ ListenerMovesAreNoGaps /\ SilentChangesReported
  /\ ChainTellsTampering /\ PagesSeeEachRowOnce /\ UndisturbedWalkIsComplete
  /\ HistoryExplainsScore /\ ShownMilestonesHappened
  /\ AlertsCountFreshFailures /\ StatusFollowsRuns

\* The numbers come out right at their edges: dust, fees and splits to the
\* stroop, amounts typed and normalised, quotes and fees for what was asked,
\* ages, budgets and waits at their last moment, and orders of rows with ties
\* and gaps.
ComputedRight ==
  /\ [](/\ DustAccountedFor /\ FeePrediction /\ SplitIsFair /\ NormalizedKeepsAmount
        /\ TypedBackIsTheSame /\ FeeFollowsDemand /\ QuoteAnswersRequest
        /\ CachedQuoteIsYoung /\ BadgeIsRecent /\ RetryAfterIsEnough
        /\ TriesBeginInBudget /\ CacheFitsQuota /\ AdviceConnects
        /\ DueRowsComeFirst /\ ReversingSortReverses /\ JumpHighlightsCategory)
  /\ RefusedIsFinal

\* Whoever is refused is refused for the reason they are told, and two copies of
\* one rule agree: client and server on amounts, statuses and flags, the routers
\* on who may pass, the messages on what went wrong.
CausesToldApart ==
  /\ ReasonFitsCause /\ AdviceFitsCause /\ SilentFailuresStaySilent
  /\ RefusedOnlyIfMoved /\ RefusalExplained
  /\ AdminsReachTheirPages /\ HandlersAreGuarded /\ DeprecatedHasTwin
  /\ TabsMatchAllocation /\ LoadKeepsSnapshot
=============================================================================

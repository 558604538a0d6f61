------------------------------ MODULE Delivery ------------------------------
(***************************************************************************)
(* What becomes of a revision: its checks and their reuse on main, the     *)
(* website that is published, and the tool that a published page offers.   *)
(* They share no variable, so a behaviour is any interleaving of them.     *)
(***************************************************************************)
EXTENDS CheckPlan, QualificationReuse, WebsitePublication, DisplayedOntologyTool

deliveryVars == <<planVars, reuseVars, websiteVars, toolVars>>

DeliveryInit == CheckPlanInit /\ ReuseInit /\ WebsiteInit /\ ToolInit
DeliveryNext == \/ CheckPlanNext /\ UNCHANGED <<reuseVars, websiteVars, toolVars>>
                \/ ReuseNext /\ UNCHANGED <<planVars, websiteVars, toolVars>>
                \/ WebsiteNext /\ UNCHANGED <<planVars, reuseVars, toolVars>>
                \/ ToolNext /\ UNCHANGED <<planVars, reuseVars, websiteVars>>
DeliverySpec == DeliveryInit /\ [][DeliveryNext]_deliveryVars

\* A green gate is earned, a red one has a reason, and a change of more runs more: see
\* CheckPlan.  Suites that main leaves out have passed, on its tree and in its environment,
\* in the newest run of the pull request: see QualificationReuse.  The website that is
\* uploaded is qualified, and was in dist at one time: see WebsitePublication.  The tool of
\* a page answers about its document, and goes with it: see DisplayedOntologyTool.
DeliverySafe == /\ GreenIsEarned /\ RedHasAReason /\ SelectionMonotone
                /\ ReuseIsProved /\ SourceIsLatest
                /\ PublicationHonest
                /\ AnswersAreOfDisplayed /\ LoadsAreRetried /\ ToolBelongsToPage
=============================================================================

----------------------------- MODULE MCServices -----------------------------
(* The small instances of the seven services. *)
EXTENDS Services

MCK == INSTANCE MCKnowledge
MCR == INSTANCE MCReports
MCI == INSTANCE MCImport
MCA == INSTANCE MCAnalysis
MCW == INSTANCE MCWhiteboard
MCB == INSTANCE MCSandboxes

MCDocuments == MCK!Texts
MCTokens == MCK!Words
MCScope == MCK!Scopes
MCKnowledgeCalls == MCK!Scenes
MCReportCalls == MCR!Scenes
MCImportCalls == MCI!Scenes
MCLower == MCA!LowerCase
MCStripped == MCA!Strip
MCWithoutV == MCA!StripV
MCKnown == MCA!KnownVersions
MCAnalysisScenarios == MCA!AllScenarios
MCBoardCalls == MCW!Scenes
MCSandboxScenarios == MCB!Scenes
=============================================================================

CONSTANTS
    Number <- MCNumber
    ReportPath <- MCReportPath
    Entries <- MCEntries
    Input <- MCInput
    Scenario <- MCScenario
    FileOf <- MCFileOf
    Root <- MCRoot
    Odd <- MCOdd
SPECIFICATION LSpec
INVARIANTS
    BunsTokensSurvive
    CliAndChildAgree
    ChangedFilesRun
    UserFilesAreOfTheProject

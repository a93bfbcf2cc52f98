SPECIFICATION FairSpec
INVARIANTS
    TypeOK
    ServesCurrentLayout
    NoHalfMigration
    CollateralKept
    ConvertedOnce
    StaysWhenUsable
PROPERTY
    Settles

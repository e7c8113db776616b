-------------------------- MODULE MCQualityReport --------------------------
EXTENDS QualityReport
=============================================================================

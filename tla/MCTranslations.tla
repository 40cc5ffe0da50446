---------------------------- MODULE MCTranslations ----------------------------
\* A small instance of Translations for TLC.
EXTENDS Translations
=============================================================================

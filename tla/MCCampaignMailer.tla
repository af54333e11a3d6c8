--------------------------- MODULE MCCampaignMailer ---------------------------
\* Small instances of the campaign mails; the bounds are explained in README.md.
EXTENDS CampaignMailer
=============================================================================
